---------------------------- MODULE Spec2Model ----------------------------
(***************************************************************************)
(* A state-machine model of the maptechpy web application (src/main.py):   *)
(* the relational tables, the request handlers that read and write them,   *)
(* and the pure conversions (number parsing, rule ordering, filter         *)
(* building) the handlers rely on.                                         *)
(*                                                                         *)
(* Conventions.                                                            *)
(*  - A nullable value is None (<<>>) or Some(v) (<<v>>).                  *)
(*  - Text that the code inspects character by character (form numbers,    *)
(*    search values, customer text columns) is a sequence of one-character *)
(*    strings; text that is only compared for equality is a TLA+ string.   *)
(*  - A Python float / SQL double is a normalised decimal                  *)
(*    [k |-> "num", m |-> mantissa, e |-> decimals], or a special value    *)
(*    with k in {"nan", "inf", "-inf"}.                                    *)
(*  - A handler that issues several SQL statements or commits is split at  *)
(*    those points: between two steps other requests may run (each         *)
(*    request has its own session; PostgreSQL READ COMMITTED).             *)
(***************************************************************************)
EXTENDS Integers, Sequences, FiniteSets, TLC

None == <<>>
Some(v) == <<v>>
IsSome(o) == o # None
Val(o) == o[1]


(***************************************************************************)
(* Text as character sequences, and Python's int() / float() on it.        *)
(***************************************************************************)
Digits == {"0", "1", "2", "3", "4", "5", "6", "7", "8", "9"}
Whitespace == {" "}

DigitVal(c) ==
  CASE c = "0" -> 0 [] c = "1" -> 1 [] c = "2" -> 2 [] c = "3" -> 3
    [] c = "4" -> 4 [] c = "5" -> 5 [] c = "6" -> 6 [] c = "7" -> 7
    [] c = "8" -> 8 [] c = "9" -> 9

RECURSIVE LStrip(_)
LStrip(s) ==
  IF s # <<>> /\ Head(s) \in Whitespace THEN LStrip(Tail(s)) ELSE s

RECURSIVE RStrip(_)
RStrip(s) ==
  IF s # <<>> /\ s[Len(s)] \in Whitespace
  THEN RStrip(SubSeq(s, 1, Len(s) - 1))
  ELSE s

\* str.strip()
Strip(s) == RStrip(LStrip(s))

IsDigits(s) == s # <<>> /\ \A i \in DOMAIN s : s[i] \in Digits
AllDigits(s) == \A i \in DOMAIN s : s[i] \in Digits

RECURSIVE DigitsVal(_)
DigitsVal(s) ==
  IF s = <<>> THEN 0
  ELSE 10 * DigitsVal(SubSeq(s, 1, Len(s) - 1)) + DigitVal(s[Len(s)])

RECURSIVE Pow10(_)
Pow10(n) == IF n = 0 THEN 1 ELSE 10 * Pow10(n - 1)

\* A decimal with trailing fractional zeros removed: equal numbers have
\* equal representations.
RECURSIVE Normalise(_, _)
Normalise(m, e) ==
  IF e > 0 /\ m % 10 = 0 THEN Normalise(m \div 10, e - 1)
  ELSE [k |-> "num", m |-> m, e |-> e]

Dec(m, e) == Normalise(m, e)
FromInt(n) == Dec(n, 0)
NaN == [k |-> "nan", m |-> 0, e |-> 0]
Inf == [k |-> "inf", m |-> 0, e |-> 0]
NegInf == [k |-> "-inf", m |-> 0, e |-> 0]

\* The sign prefix of a numeric literal: <<sign, rest>>.
SplitSign(t) ==
  IF t # <<>> /\ Head(t) = "-" THEN <<-1, Tail(t)>>
  ELSE IF t # <<>> /\ Head(t) = "+" THEN <<1, Tail(t)>>
  ELSE <<1, t>>

Failed == [ok |-> FALSE, v |-> None]
Parsed(v) == [ok |-> TRUE, v |-> Some(v)]

\* int(s): surrounding whitespace, an optional sign, one or more digits.
\* ok = FALSE stands for the ValueError.
PyInt(s) ==
  LET sb == SplitSign(Strip(s))
  IN  IF IsDigits(sb[2]) THEN Parsed(sb[1] * DigitsVal(sb[2])) ELSE Failed

\* Index of the first "." of t, or 0.
DotAt(t) ==
  IF \E i \in DOMAIN t : t[i] = "."
  THEN CHOOSE i \in DOMAIN t : t[i] = "." /\ \A j \in 1..(i - 1) : t[j] # "."
  ELSE 0

\* float(s): surrounding whitespace, an optional sign, then nan / inf /
\* infinity, or digits with at most one "." and at least one digit.
PyFloat(s) ==
  LET sb == SplitSign(Strip(s))
      sign == sb[1]
      body == sb[2]
      d == DotAt(body)
      ip == IF d = 0 THEN body ELSE SubSeq(body, 1, d - 1)
      fp == IF d = 0 THEN <<>> ELSE SubSeq(body, d + 1, Len(body))
  IN  IF body = <<"n", "a", "n">> THEN Parsed(NaN)
      ELSE IF body \in {<<"i", "n", "f">>, <<"i", "n", "f", "i", "n", "i", "t", "y">>}
      THEN Parsed(IF sign = 1 THEN Inf ELSE NegInf)
      ELSE IF AllDigits(ip) /\ AllDigits(fp) /\ Len(ip) + Len(fp) > 0
      THEN Parsed(Dec(sign * (DigitsVal(ip) * Pow10(Len(fp)) + DigitsVal(fp)), Len(fp)))
      ELSE Failed

(***************************************************************************)
(* Literal strings of the source.  The source's Japanese literals are      *)
(* written here by ASCII stand-ins, one stand-in per distinct literal.     *)
(***************************************************************************)
Interval10 == "10min"      \* main.py:437, the 10-minute interval label
Interval15 == "15min"      \* main.py:437/438, the 15-minute interval label
Interval30 == "30min"      \* main.py:315, the 30-minute interval label
MsgSearchLimit == "search_limit must be a number"       \* main.py:427
MsgNearbyDistance == "nearby_distance must be a number" \* main.py:435
TargetCustomer == "customer_info"    \* main.py:198, rule target "customer info"
TargetVisit == "visit_schedule"      \* main.py:202, rule target "visit schedule"
CondContains == "contains"           \* main.py:198
CondEquals == "equals"               \* main.py:199
CondNotContains == "not_contains"    \* main.py:200
CondNotEquals == "not_equals"        \* main.py:201

DefaultSearchLimit == 10000
DefaultNearbyDistanceKm == 3

(***************************************************************************)
(* State.                                                                  *)
(***************************************************************************)
VARIABLES
  customers,              \* table customers: set of rows
  visit_schedules,        \* table visit_schedules
  maptech_users,          \* table maptech_users
  admin_users,            \* table admin_users
  org_default_setting,    \* table org_default_setting
  marker_color_setting,   \* table marker_color_setting
  next_id,                \* the serial of each table's id column
  now,                    \* the wall clock, in hours
  seed,                   \* seed_if_empty: its position and the last count() read
  req,                    \* per request slot: the handler in flight and its locals
  resp                    \* per request slot: the last response sent

tables == <<customers, visit_schedules, maptech_users, admin_users,
            org_default_setting, marker_color_setting>>
vars == <<customers, visit_schedules, maptech_users, admin_users,
          org_default_setting, marker_color_setting, next_id, now, seed, req, resp>>

NumProcs == 2
Procs == 1..NumProcs

TableNames == {"customers", "visit_schedules", "maptech_users", "admin_users",
               "org_default_setting", "marker_color_setting"}

Idle == [pc |-> "idle"]
NoResp == [status |-> 0]

Ids(table) == {r.id : r \in table}

\* The rows of `table` in ascending id order.
RECURSIVE ById(_)
ById(table) ==
  IF table = {} THEN <<>>
  ELSE LET r == CHOOSE x \in table : \A y \in table : x.id <= y.id
       IN  <<r>> \o ById(table \ {r})

\* INSERT of a sequence of id-less rows: each gets the next serial value.
WithIds(rows, first) ==
  {[id |-> first + i - 1] @@ rows[i] : i \in DOMAIN rows}

(***************************************************************************)
(* OrgDefaultSetting and its get-or-create resolver.                       *)
(***************************************************************************)
OrgRow(limit, dist, interval, area, group) ==
  [search_limit |-> limit, nearby_distance_km |-> dist,
   entry_exit_interval |-> interval, enable_area |-> area, enable_group |-> group]

\* The row built at main.py:312-318 (and at 187-193 by the seed).
OrgDefaults ==
  OrgRow(Some(DefaultSearchLimit), Some(FromInt(DefaultNearbyDistanceKm)),
         Some(Interval30), FALSE, FALSE)

\* _get_current_admin: the AdminUser row the cookie names, if any.
\* cookie is None (no cookie) or Some(username).
GetCurrentAdmin(cookie) ==
  IF ~IsSome(cookie) \/ Val(cookie) = ""
  THEN {}
  ELSE {a \in admin_users : a.username = Val(cookie)}

\* Mutant of ParseIntField: an unparseable number is dropped silently.
ParseIntFieldDrop(val) ==
  IF val = None \/ val = Some(<<>>) THEN [err |-> FALSE, v |-> None, msg |-> ""]
  ELSE [err |-> FALSE, v |-> PyInt(Val(val)).v, msg |-> ""]

\* _parse_int of update_admin_settings: None for an absent or empty field,
\* the integer, or the error message.
ParseIntField(val) ==
  IF val = None \/ val = Some(<<>>) THEN [err |-> FALSE, v |-> None, msg |-> ""]
  ELSE LET p == PyInt(Val(val))
       IN  IF p.ok THEN [err |-> FALSE, v |-> p.v, msg |-> ""]
           ELSE [err |-> TRUE, v |-> None, msg |-> MsgSearchLimit]

\* _parse_float of update_admin_settings.
ParseFloatField(val) ==
  IF val = None \/ val = Some(<<>>) THEN [err |-> FALSE, v |-> None, msg |-> ""]
  ELSE LET p == PyFloat(Val(val))
       IN  IF p.ok THEN [err |-> FALSE, v |-> p.v, msg |-> ""]
           ELSE [err |-> TRUE, v |-> None, msg |-> MsgNearbyDistance]

AllowedIntervals == {Interval10, Interval15, Interval30}

\* Mutant of IntervalToUse: the submitted label is stored unvalidated.
IntervalToUseRaw(entry_exit_interval) == entry_exit_interval

\* interval_to_use, main.py:438.
IntervalToUse(entry_exit_interval) ==
  IF entry_exit_interval \in AllowedIntervals THEN entry_exit_interval ELSE Interval15

(***************************************************************************)
(* MarkerColorSetting: the rule order read by the admin page.              *)
(***************************************************************************)
\* Mutant of RuleBefore: rules without priority sort first.
RuleBeforeNullsFirst(a, b) ==
  IF IsSome(a.priority) /\ IsSome(b.priority)
  THEN \/ Val(a.priority) < Val(b.priority)
       \/ Val(a.priority) = Val(b.priority) /\ a.id < b.id
  ELSE IF IsSome(a.priority) # IsSome(b.priority)
  THEN ~IsSome(a.priority)
  ELSE a.id < b.id

\* ORDER BY priority NULLS LAST, id  (main.py:356): does rule a sort before b?
RuleBefore(a, b) ==
  IF IsSome(a.priority) /\ IsSome(b.priority)
  THEN \/ Val(a.priority) < Val(b.priority)
       \/ Val(a.priority) = Val(b.priority) /\ a.id < b.id
  ELSE IF IsSome(a.priority) # IsSome(b.priority)
  THEN IsSome(a.priority)
  ELSE a.id < b.id

\* The query of main.py:354-358 on a rule table: the rows in that order.
RECURSIVE MarkerColorsOrdered(_)
MarkerColorsOrdered(table) ==
  IF table = {} THEN <<>>
  ELSE LET r == CHOOSE x \in table : \A y \in table \ {x} : RuleBefore(x, y)
       IN  <<r>> \o MarkerColorsOrdered(table \ {r})

(***************************************************************************)
(* seed_if_empty (main.py:125-210): for each table in turn, count() and,   *)
(* when the count is 0, insert the sample rows and commit.                 *)
(***************************************************************************)
SeedOrder == <<"customers", "visit_schedules", "maptech_users", "admin_users",
               "org_default_setting", "marker_color_setting">>

SeedCustomers ==
  << [name |-> <<"T", "o", "k", "y", "o", "H", "Q">>,
      address |-> <<"T", "o", "k", "y", "o", "1">>,
      latitude |-> Dec(35681236, 6), longitude |-> Dec(139767125, 6),
      visit_status |-> Some(<<"n", "e", "w">>), segment |-> Some(<<"c", "o">>)],
     [name |-> <<"S", "h", "i", "n", "j", "u", "k", "u">>,
      address |-> <<"T", "o", "k", "y", "o", "2">>,
      latitude |-> Dec(35689592, 6), longitude |-> Dec(139691833, 6),
      visit_status |-> Some(<<"d", "o", "n", "e">>), segment |-> Some(<<"c", "o">>)] >>

SeedVisits ==
  << [name |-> "regular visit", start_at |-> Some(now + 24), end_at |-> Some(now + 25),
      result |-> None, detail |-> Some("prepare next meeting"),
      customer_id |-> Some(1)] >>

SeedUsers ==
  << [username |-> <<"d", "e", "m", "o">>, password |-> <<"d", "e", "m", "o">>,
      transport_method |-> Some("walk"), route_origin |-> Some("Tokyo station"),
      saved_search_conditions |-> Some(""), marker_cluster_max_zoom |-> Some(12),
      zoom_setting |-> Some("autofocus"),
      origin_lng |-> Some(Dec(139767125, 6)), origin_lat |-> Some(Dec(35681236, 6)),
      nearby_distance_km |-> Some(FromInt(5)),
      map_display_type_main |-> Some("standard"),
      map_display_type_adjust |-> Some("register"),
      toll_usage |-> Some("use"), visit_status |-> Some("new"),
      past_visit_edit |-> Some("no")] >>

SeedAdmins == << [username |-> "admin", password |-> "admin"] >>

ColorRow(priority, target, field_name, match_value, match_condition, color, style) ==
  [priority |-> priority, target |-> target, field_name |-> field_name,
   match_value |-> match_value, match_condition |-> match_condition,
   color |-> color, marker_style |-> style]

SeedColors ==
  << ColorRow(Some(1), Some(TargetCustomer), Some("address"),
              Some(<<"S", "a", "i", "t", "a", "m", "a">>), Some(CondContains),
              Some("#ffff00"), Some("house")),
     ColorRow(Some(2), Some(TargetCustomer), Some("address"),
              Some(<<"I", "b", "a", "r", "a", "k", "i">>), Some(CondEquals),
              Some("#cc6633"), Some("")),
     ColorRow(Some(3), Some(TargetCustomer), Some("address"),
              Some(<<"T", "o", "k", "y", "o">>), Some(CondNotContains),
              Some("#0033cc"), Some("")),
     ColorRow(Some(4), Some(TargetCustomer), Some("address"),
              Some(<<"T", "o", "c", "h", "i", "g", "i">>), Some(CondNotEquals),
              Some("#f55fcd"), Some("")),
     ColorRow(Some(5), Some(TargetVisit), Some("result"),
              Some(<<"v", "o", "i", "d">>), Some(CondEquals),
              Some("#cccccc"), Some("")),
     ColorRow(Some(6), Some(TargetVisit), Some("result"),
              Some(<<"a", "w", "a", "y">>), Some(CondEquals),
              Some("#cccccc"), Some("")),
     ColorRow(Some(7), Some(TargetVisit), Some("result"),
              Some(<<"o", "r", "d", "e", "r">>), Some(CondEquals),
              Some("#00cc00"), Some("")) >>

SeedOrg == << OrgDefaults >>

SeedRows(t) ==
  CASE t = "customers" -> SeedCustomers
    [] t = "visit_schedules" -> SeedVisits
    [] t = "maptech_users" -> SeedUsers
    [] t = "admin_users" -> SeedAdmins
    [] t = "org_default_setting" -> SeedOrg
    [] t = "marker_color_setting" -> SeedColors

Table(t) ==
  CASE t = "customers" -> customers
    [] t = "visit_schedules" -> visit_schedules
    [] t = "maptech_users" -> maptech_users
    [] t = "admin_users" -> admin_users
    [] t = "org_default_setting" -> org_default_setting
    [] t = "marker_color_setting" -> marker_color_setting

SeedIdle == [tbl |-> 0, phase |-> "idle"]
SeedDone == [tbl |-> Len(SeedOrder) + 1, phase |-> "done"]
SeedAdvance(i) ==
  IF i = Len(SeedOrder) THEN SeedDone ELSE [tbl |-> i + 1, phase |-> "check"]

\* init_db(seed=True) reaches seed_if_empty.
SeedStart ==
  /\ seed = SeedIdle
  /\ seed' = [tbl |-> 1, phase |-> "check"]
  /\ UNCHANGED <<tables, next_id, now, req, resp>>

\* if db.query(T).count() == 0:
SeedCheck ==
  /\ seed.phase = "check"
  /\ seed' = IF Table(SeedOrder[seed.tbl]) = {}
             THEN [seed EXCEPT !.phase = "insert"]
             ELSE SeedAdvance(seed.tbl)
  /\ UNCHANGED <<tables, next_id, now, req, resp>>

\* db.add_all(...); db.commit()
SeedInsert ==
  /\ seed.phase = "insert"
  /\ LET t == SeedOrder[seed.tbl]
         new == WithIds(SeedRows(t), next_id[t])
         put(name, tbl) == IF t = name THEN tbl \cup new ELSE tbl
     IN  /\ customers' = put("customers", customers)
         /\ visit_schedules' = put("visit_schedules", visit_schedules)
         /\ maptech_users' = put("maptech_users", maptech_users)
         /\ admin_users' = put("admin_users", admin_users)
         /\ org_default_setting' = put("org_default_setting", org_default_setting)
         /\ marker_color_setting' = put("marker_color_setting", marker_color_setting)
         /\ next_id' = [next_id EXCEPT ![t] = @ + Len(SeedRows(t))]
  /\ seed' = SeedAdvance(seed.tbl)
  /\ UNCHANGED <<now, req, resp>>

(***************************************************************************)
(* Responses.                                                              *)
(***************************************************************************)
Redirect(p, url) == [proc |-> p, status |-> 303, location |-> url, error |-> ""]
RedirectError(p, msg) ==
  [proc |-> p, status |-> 303, location |-> "/AdminSettings?error", error |-> msg]
HttpError(p, code) == [proc |-> p, status |-> code, location |-> "", error |-> ""]
Ok(p, body) == [proc |-> p, status |-> 200, body |-> body]

(***************************************************************************)
(* _get_org_default_setting (main.py:308-322), in two steps: the           *)
(* SELECT ... LIMIT 1 (part of the calling handler's first step), and,     *)
(* when it returned no row, the INSERT and commit.                         *)
(***************************************************************************)
\* Mutant of OrgFirst: the existing row is never found.
OrgFirstNone == {None}

\* The outcomes of db.query(OrgDefaultSetting).first(): None on an empty
\* table, otherwise a row; the query has no ORDER BY, so any row.
OrgFirst ==
  IF org_default_setting = {} THEN {None}
  ELSE {Some(s) : s \in org_default_setting}

\* The defaults row as inserted with primary key id.
OrgCreated(id) == [id |-> id] @@ OrgDefaults

\* db.add(setting); db.commit(); db.refresh(setting)  (main.py:312-322).
\* The caller goes on with the created row.
get_org_default_setting_create(p) ==
  /\ req[p].pc = "org_create"
  /\ LET s == OrgCreated(next_id["org_default_setting"])
     IN  /\ org_default_setting' = org_default_setting \cup {s}
         /\ next_id' = [next_id EXCEPT !["org_default_setting"] = @ + 1]
         /\ req' = [req EXCEPT ![p] = [req[p] EXCEPT !.pc = req[p].after, !.setting = Some(s)]]
  /\ UNCHANGED <<customers, visit_schedules, maptech_users, admin_users,
                 marker_color_setting, now, seed, resp>>

(***************************************************************************)
(* GET /AdminSettings (main.py:346-405).                                   *)
(***************************************************************************)
admin_settings_page_begin(p, cookie) ==
  /\ req[p].pc = "idle"
  /\ IF GetCurrentAdmin(cookie) = {}
     THEN /\ resp' = Redirect(p, "/AdminLogin")
          /\ req' = req
     ELSE /\ \E found \in OrgFirst :
               req' = [req EXCEPT ![p] =
                 [pc |-> IF IsSome(found) THEN "page_render" ELSE "org_create",
                  after |-> "page_render",
                  setting |-> found]]
          /\ resp' = resp
  /\ UNCHANGED <<tables, next_id, now, seed>>

\* The two list queries and the template response (main.py:354-405).
admin_settings_page_render(p) ==
  /\ req[p].pc = "page_render"
  /\ resp' = Ok(p, [setting |-> Val(req[p].setting),
                    marker_colors |-> MarkerColorsOrdered(marker_color_setting),
                    maptech_users |-> ById(maptech_users)])
  /\ req' = [req EXCEPT ![p] = Idle]
  /\ UNCHANGED <<tables, next_id, now, seed>>

(***************************************************************************)
(* POST /AdminSettings (main.py:407-457).                                  *)
(***************************************************************************)
\* A form: search_limit and nearby_distance_km are None (field absent) or
\* Some(text); entry_exit_interval is None (absent: the declared default
\* applies, main.py:413) or Some(label); a checkbox is None or Some("on").
FormInterval(form) ==
  IF IsSome(form.entry_exit_interval) THEN Val(form.entry_exit_interval) ELSE Interval15

\* The five assignments of main.py:449-453 as a row (without id).
OrgAssigned(form) ==
  OrgRow(ParseIntField(form.search_limit).v,
         ParseFloatField(form.nearby_distance_km).v,
         Some(IntervalToUse(FormInterval(form))),
         IsSome(form.enable_area),
         IsSome(form.enable_group))

update_admin_settings_begin(p, cookie, form) ==
  /\ req[p].pc = "idle"
  /\ IF GetCurrentAdmin(cookie) = {}
     THEN /\ resp' = Redirect(p, "/AdminLogin")
          /\ req' = req
     ELSE IF ParseIntField(form.search_limit).err
     THEN /\ resp' = RedirectError(p, ParseIntField(form.search_limit).msg)
          /\ req' = req
     ELSE IF ParseFloatField(form.nearby_distance_km).err
     THEN /\ resp' = RedirectError(p, ParseFloatField(form.nearby_distance_km).msg)
          /\ req' = req
     ELSE /\ \E found \in OrgFirst :
               req' = [req EXCEPT ![p] =
                 [pc |-> IF IsSome(found) THEN "org_update" ELSE "org_create",
                  after |-> "org_update",
                  setting |-> found,
                  form |-> form]]
          /\ resp' = resp
  /\ UNCHANGED <<tables, next_id, now, seed>>

OrgColumns == {"search_limit", "nearby_distance_km", "entry_exit_interval",
               "enable_area", "enable_group"}

\* The UPDATE the session flushes at db.commit() (main.py:454): it sets the
\* columns whose assigned value differs from the value the session loaded.
OrgFlush(stored, loaded, assigned) ==
  [c \in DOMAIN stored |->
     IF c \in OrgColumns /\ assigned[c] # loaded[c] THEN assigned[c] ELSE stored[c]]

update_admin_settings_commit(p) ==
  /\ req[p].pc = "org_update"
  /\ LET loaded == Val(req[p].setting)
         assigned == OrgAssigned(req[p].form)
     IN  org_default_setting' =
           {IF s.id = loaded.id THEN OrgFlush(s, loaded, assigned) ELSE s :
              s \in org_default_setting}
  /\ resp' = Redirect(p, "/AdminSettings?success=1")
  /\ req' = [req EXCEPT ![p] = Idle]
  /\ UNCHANGED <<customers, visit_schedules, maptech_users, admin_users,
                 marker_color_setting, next_id, now, seed>>

(***************************************************************************)
(* Requests drawn by the specifications.                                   *)
(***************************************************************************)
\* The admin_auth_user cookie: absent, empty, the seeded admin, a stranger.
AdminCookies == {None, Some(""), Some("admin"), Some("ghost")}

SearchLimitTexts ==
  {None, Some(<<>>), Some(<<"5", "0">>), Some(<<"1", ".", "5">>)}
NearbyDistanceTexts ==
  {None, Some(<<"1", ".", "5">>), Some(<<"x">>)}
IntervalTexts == {None, Some(Interval10), Some(Interval30), Some("99min")}
Checkbox == {None, Some("on")}

\* Every combination of the three text fields with both boxes unticked, and
\* every combination of the two boxes with one choice of the text fields.
AdminForms ==
  {f \in [search_limit : SearchLimitTexts, nearby_distance_km : NearbyDistanceTexts,
          entry_exit_interval : IntervalTexts, enable_area : Checkbox,
          enable_group : Checkbox] :
     \/ f.enable_area = None /\ f.enable_group = None
     \/ f.search_limit = None /\ f.nearby_distance_km = None
          /\ f.entry_exit_interval = None}

\* The forms of the concurrent specification: one valid form.
RaceForms ==
  [search_limit : {Some(<<"5", "0">>)}, nearby_distance_km : {None},
   entry_exit_interval : {Some(Interval10)}, enable_area : {None},
   enable_group : {None}]

(***************************************************************************)
(* Specifications.                                                         *)
(***************************************************************************)
\* The database right after Base.metadata.create_all (init_db.py:54): every
\* table exists and is empty.
InitDb ==
  /\ customers = {} /\ visit_schedules = {} /\ maptech_users = {}
  /\ admin_users = {} /\ org_default_setting = {} /\ marker_color_setting = {}
  /\ next_id = [t \in TableNames |-> 1]
  /\ now = 12
  /\ seed = SeedIdle
  /\ req = [p \in Procs |-> Idle]
  /\ resp = NoResp

\* Requests are served one at a time, by one worker, and not inside a
\* transaction of the seed script.
Worker == CHOOSE p \in Procs : \A q \in Procs : p <= q
Serial == seed.phase # "insert"
WorkerIdle == req[Worker].pc = "idle"

OrgSeedStart == WorkerIdle /\ SeedStart
OrgSeedCheck == WorkerIdle /\ SeedCheck
OrgSeedInsert == WorkerIdle /\ SeedInsert
OrgPageBegin ==
  \E c \in AdminCookies : Serial /\ admin_settings_page_begin(Worker, c)
OrgPageRender == admin_settings_page_render(Worker)
OrgUpdateBegin ==
  \E c \in AdminCookies, f \in AdminForms :
    Serial /\ update_admin_settings_begin(Worker, c, f)
OrgCreate == get_org_default_setting_create(Worker)
OrgUpdateCommit == update_admin_settings_commit(Worker)

\* Organisation settings, requests served one after the other.
NextOrg ==
  \/ OrgSeedStart
  \/ OrgSeedCheck
  \/ OrgSeedInsert
  \/ OrgPageBegin
  \/ OrgPageRender
  \/ OrgUpdateBegin
  \/ OrgCreate
  \/ OrgUpdateCommit

SpecOrg == InitDb /\ [][NextOrg]_vars

RacePageBegin == \E p \in Procs : admin_settings_page_begin(p, Some("admin"))
RacePageRender == \E p \in Procs : admin_settings_page_render(p)
RaceUpdateBegin ==
  \E p \in Procs, f \in RaceForms : update_admin_settings_begin(p, Some("admin"), f)
RaceCreate == \E p \in Procs : get_org_default_setting_create(p)
RaceUpdateCommit == \E p \in Procs : update_admin_settings_commit(p)

\* Organisation settings, requests and the seed script interleaved at their
\* SQL statements.
NextOrgRace ==
  \/ SeedStart
  \/ SeedCheck
  \/ SeedInsert
  \/ RacePageBegin
  \/ RacePageRender
  \/ RaceUpdateBegin
  \/ RaceCreate
  \/ RaceUpdateCommit

SpecOrgRace == InitDb /\ [][NextOrgRace]_vars
(***************************************************************************)
(* The database once seed_if_empty has run on the empty tables.            *)
(***************************************************************************)
InitSeeded ==
  /\ now = 12
  /\ customers = WithIds(SeedCustomers, 1)
  /\ visit_schedules = WithIds(SeedVisits, 1)
  /\ maptech_users = WithIds(SeedUsers, 1)
  /\ admin_users = WithIds(SeedAdmins, 1)
  /\ org_default_setting = WithIds(SeedOrg, 1)
  /\ marker_color_setting = WithIds(SeedColors, 1)
  /\ next_id = [t \in TableNames |-> Len(SeedRows(t)) + 1]
  /\ seed = SeedDone
  /\ req = [p \in Procs |-> Idle]
  /\ resp = NoResp

(***************************************************************************)
(* POST /admin/marker-colors (main.py:460-500).                            *)
(***************************************************************************)
\* A JSON value offered for an Optional[int] field: the key is absent, or
\* the value is null, an integer or a string.
\* A Python int has no width; the model checker's integers have 32 bits.  A
\* Python int here is two limbs: its value is hi * 2^32 + lo.
Small(n) == [hi |-> 0, lo |-> n]
Int32Max == 2147483647
\* 2^31, the least integer above the range of an INTEGER column.
TwoTo31 == [hi |-> 1, lo |-> -Int32Max - 1]
\* Whether a Python int fits a PostgreSQL INTEGER column.
FitsInteger(v) == v.hi = 0

RawAbsent == [t |-> "absent", n |-> Small(0), s |-> <<>>]
RawNull == [t |-> "null", n |-> Small(0), s |-> <<>>]
RawInt(v) == [t |-> "int", n |-> v, s |-> <<>>]
RawStr(s) == [t |-> "str", n |-> Small(0), s |-> s]

\* pydantic's validation of an Optional[int] field (MarkerColorRow.priority).
\* A string is accepted when it reads as an integer.
ValidateOptInt(raw) ==
  CASE raw.t = "absent" -> Parsed(None)
    [] raw.t = "null" -> Parsed(None)
    [] raw.t = "int" -> Parsed(Some(raw.n))
    [] raw.t = "str" -> IF PyInt(raw.s).ok THEN Parsed(Some(Small(Val(PyInt(raw.s).v))))
                        ELSE Failed

\* Python truthiness of an Optional[int]: neither None nor 0.
TruthyInt(o) == IsSome(o) /\ Val(o) # Small(0)

\* An element of payload["rows"]: a JSON object with the rule's keys
\* (dict = TRUE), or some other JSON value (dict = FALSE).
RawColorRow(priority, fields) == [dict |-> TRUE, priority |-> priority, fields |-> fields]
NotADict == [dict |-> FALSE, priority |-> RawAbsent, fields |-> <<>>]

\* Mutant of ParseColorRow: a row that does not parse is taken as a rule
\* without priority.
ParseColorRowLenient(raw) ==
  IF raw.dict /\ ValidateOptInt(raw.priority).ok
  THEN [ok |-> TRUE, row |-> [raw.fields EXCEPT !.priority = Val(ValidateOptInt(raw.priority).v)]]
  ELSE [ok |-> TRUE, row |-> ColorRow(None, None, None, None, None, None, None)]

\* MarkerColorRow(**row) (main.py:474): ok = FALSE stands for the exception.
ParseColorRow(raw) ==
  IF ~raw.dict THEN [ok |-> FALSE, row |-> <<>>]
  ELSE LET pr == ValidateOptInt(raw.priority)
       IN  IF pr.ok
           THEN [ok |-> TRUE, row |-> [raw.fields EXCEPT !.priority = Val(pr.v)]]
           ELSE [ok |-> FALSE, row |-> <<>>]

\* priority=r.priority or idx + 1 (main.py:485); idx here is 1-based.
SavedPriority(r, idx) == IF TruthyInt(r.priority) THEN Val(r.priority) ELSE Small(idx)

\* to_save (main.py:481-493).
ToSaveColors(parsed_rows) ==
  [i \in DOMAIN parsed_rows |->
     [parsed_rows[i] EXCEPT !.priority = Some(SavedPriority(parsed_rows[i], i))]]

\* The INSERT fails when a priority does not fit the INTEGER column
\* (main.py:108).
ColorsInsertFails(to_save) ==
  \E i \in DOMAIN to_save : ~FitsInteger(Val(to_save[i].priority))

\* The rows as stored: the priority in the column's own range.
StoredColors(to_save) ==
  [i \in DOMAIN to_save |->
     [to_save[i] EXCEPT !.priority = Some(Val(to_save[i].priority).lo)]]

\* The serial of marker_color_setting.id is not let past this value.
MaxColorId == 11

\* Authentication, validation of the rows, then DELETE of every rule and
\* commit (main.py:466-480).  `before` records the rule set the request
\* found, for the properties only.
save_marker_colors_begin(p, cookie, rows_data) ==
  /\ req[p].pc = "idle"
  /\ next_id["marker_color_setting"] + Len(rows_data) - 1 <= MaxColorId
  /\ IF GetCurrentAdmin(cookie) = {}
     THEN /\ resp' = HttpError(p, 401)
          /\ UNCHANGED <<req, marker_color_setting>>
     ELSE IF \E i \in DOMAIN rows_data : ~ParseColorRow(rows_data[i]).ok
     THEN /\ resp' = HttpError(p, 400)
          /\ UNCHANGED <<req, marker_color_setting>>
     ELSE /\ marker_color_setting' = {}
          /\ req' = [req EXCEPT ![p] =
               [pc |-> "colors_insert",
                rows_data |-> rows_data,
                parsed_rows |-> [i \in DOMAIN rows_data |-> ParseColorRow(rows_data[i]).row],
                before |-> marker_color_setting]]
          /\ resp' = resp
  /\ UNCHANGED <<customers, visit_schedules, maptech_users, admin_users,
                 org_default_setting, next_id, now, seed>>

\* db.add_all(to_save); db.commit(), or on an exception db.rollback() and
\* 500 (main.py:481-500).
save_marker_colors_insert(p) ==
  /\ req[p].pc = "colors_insert"
  /\ LET to_save == ToSaveColors(req[p].parsed_rows)
     IN  IF ColorsInsertFails(to_save)
         THEN /\ resp' = HttpError(p, 500)
              /\ UNCHANGED <<marker_color_setting, next_id>>
         ELSE /\ marker_color_setting' =
                   marker_color_setting
                     \cup WithIds(StoredColors(to_save), next_id["marker_color_setting"])
              /\ next_id' = [next_id EXCEPT !["marker_color_setting"] = @ + Len(to_save)]
              /\ resp' = Ok(p, [status |-> "ok"])
  /\ req' = [req EXCEPT ![p] = Idle]
  /\ UNCHANGED <<customers, visit_schedules, maptech_users, admin_users,
                 org_default_setting, now, seed>>

\* Rule fields other than the priority, for the sample rows.
SampleFields(color) ==
  ColorRow(None, Some(TargetCustomer), Some("address"), Some(<<"T", "o">>),
           Some(CondContains), Some(color), Some(""))

\* Rows offered in payloads: no priority, priority 0, an explicit priority,
\* a numeric string, a priority beyond INTEGER, a priority that is no
\* number, and an element that is no object.
SampleColorRows ==
  {RawColorRow(RawAbsent, SampleFields("#a")),
   RawColorRow(RawInt(Small(0)), SampleFields("#b")),
   RawColorRow(RawInt(Small(5)), SampleFields("#c")),
   RawColorRow(RawStr(<<"7">>), SampleFields("#d")),
   RawColorRow(RawInt(TwoTo31), SampleFields("#e")),
   RawColorRow(RawStr(<<"x">>), SampleFields("#f")),
   NotADict}

MaxRows == 2

RECURSIVE SeqsUpTo(_, _)
SeqsUpTo(S, n) ==
  IF n = 0 THEN {<<>>}
  ELSE LET shorter == SeqsUpTo(S, n - 1)
       IN  shorter \cup {Append(q, x) : q \in shorter, x \in S}

ColorPayloads == SeqsUpTo(SampleColorRows, MaxRows)

ColorsBegin ==
  \E c \in AdminCookies, rows \in ColorPayloads :
    save_marker_colors_begin(Worker, c, rows)
ColorsInsert == save_marker_colors_insert(Worker)

\* Marker-colour rules, requests served one after the other.
NextColors ==
  \/ ColorsBegin
  \/ ColorsInsert

SpecColors == InitSeeded /\ [][NextColors]_vars

\* Payloads with rows that are no marker-color rows: a row without priority,
\* a row with one, a priority that is no integer, an element that is no
\* object.
BadRowSamples ==
  {RawColorRow(RawAbsent, SampleFields("#a")),
   RawColorRow(RawInt(Small(5)), SampleFields("#c")),
   RawColorRow(RawStr(<<"x">>), SampleFields("#f")),
   NotADict}

BadRowPayloads == SeqsUpTo(BadRowSamples, MaxRows)

BadRowsBegin ==
  \E c \in AdminCookies, rows \in BadRowPayloads :
    save_marker_colors_begin(Worker, c, rows)
BadRowsInsert == save_marker_colors_insert(Worker)

NextBadRows ==
  \/ BadRowsBegin
  \/ BadRowsInsert

SpecBadRows == InitSeeded /\ [][NextBadRows]_vars

(***************************************************************************)
(* POST /admin/users: save_maptech_users (main.py:503-565).                *)
(***************************************************************************)
UserTextFields ==
  {"transport_method", "route_origin", "saved_search_conditions", "zoom_setting",
   "map_display_type_main", "map_display_type_adjust", "toll_usage", "visit_status",
   "past_visit_edit"}

NoTexts == [f \in UserTextFields |-> None]

\* An element of payload["rows"]: a JSON object (dict = TRUE) with its raw
\* values, or some other JSON value.
RawUserRow(username, password, zoom, lng, lat, km, texts) ==
  [dict |-> TRUE, username |-> username, password |-> password,
   marker_cluster_max_zoom |-> zoom, origin_lng |-> lng, origin_lat |-> lat,
   nearby_distance_km |-> km, texts |-> texts]
NotAUserDict ==
  [dict |-> FALSE, username |-> RawAbsent, password |-> RawAbsent,
   marker_cluster_max_zoom |-> RawAbsent, origin_lng |-> RawAbsent,
   origin_lat |-> RawAbsent, nearby_distance_km |-> RawAbsent, texts |-> NoTexts]

\* Mutant of StrippedOrEmpty: without the strip().
NotStripped(raw) ==
  CASE raw.t \in {"absent", "null"} -> Parsed(<<>>)
    [] raw.t = "str" -> Parsed(raw.s)
    [] raw.t = "int" -> IF raw.n = Small(0) THEN Parsed(<<>>) ELSE Failed

\* (r.get(key) or "").strip() (main.py:535-536): a falsy value reads as "",
\* a string is stripped, any other value has no strip() and raises.
StrippedOrEmpty(raw) ==
  CASE raw.t \in {"absent", "null"} -> Parsed(<<>>)
    [] raw.t = "str" -> Parsed(Strip(raw.s))
    [] raw.t = "int" -> IF raw.n = Small(0) THEN Parsed(<<>>) ELSE Failed

\* _to_int (main.py:513-519).
ToInt(raw) ==
  CASE raw.t \in {"absent", "null"} -> None
    [] raw.t = "str" ->
         IF raw.s = <<>> \/ raw.s = <<"n", "u", "l", "l">> THEN None
         ELSE IF PyInt(raw.s).ok THEN Some(Small(Val(PyInt(raw.s).v))) ELSE None
    [] raw.t = "int" -> Some(raw.n)

\* _to_float (main.py:521-527).
ToFloat(raw) ==
  CASE raw.t \in {"absent", "null"} -> None
    [] raw.t = "str" ->
         IF raw.s = <<>> \/ raw.s = <<"n", "u", "l", "l">> THEN None
         ELSE PyFloat(raw.s).v
    [] raw.t = "int" -> Some(FromInt(raw.n.lo))

\* The MaptechUser built from one row (main.py:539-557); the zoom is still
\* a Python int.
UserFromRow(r, username, password) ==
  [username |-> username, password |-> password,
   marker_cluster_max_zoom |-> ToInt(r.marker_cluster_max_zoom),
   origin_lng |-> ToFloat(r.origin_lng), origin_lat |-> ToFloat(r.origin_lat),
   nearby_distance_km |-> ToFloat(r.nearby_distance_km)] @@ r.texts

\* The loop over rows (main.py:534-557): ok = FALSE stands for an exception
\* (an element without get(), a username or password without strip()).
RECURSIVE ToAddUsers(_)
ToAddUsers(rows) ==
  IF rows = <<>> THEN [ok |-> TRUE, to_add |-> <<>>]
  ELSE LET r == Head(rows) IN
       IF ~r.dict THEN [ok |-> FALSE, to_add |-> <<>>]
       ELSE LET username == StrippedOrEmpty(r.username) IN
            IF ~username.ok THEN [ok |-> FALSE, to_add |-> <<>>]
            ELSE LET password == StrippedOrEmpty(r.password) IN
                 IF ~password.ok THEN [ok |-> FALSE, to_add |-> <<>>]
                 ELSE LET rest == ToAddUsers(Tail(rows)) IN
                      IF ~rest.ok THEN rest
                      ELSE IF Val(username.v) = <<>> \/ Val(password.v) = <<>> THEN rest
                      ELSE [ok |-> TRUE,
                            to_add |-> <<UserFromRow(r, Val(username.v), Val(password.v))>>
                                         \o rest.to_add]

\* The INSERT fails on a username that is already stored or repeated
\* (unique, main.py:67) and on a zoom beyond INTEGER (main.py:72).
UsersInsertFails(stored, to_add) ==
  \/ \E i \in DOMAIN to_add : \E u \in stored : u.username = to_add[i].username
  \/ \E i, j \in DOMAIN to_add : i # j /\ to_add[i].username = to_add[j].username
  \/ \E i \in DOMAIN to_add :
       /\ IsSome(to_add[i].marker_cluster_max_zoom)
       /\ ~FitsInteger(Val(to_add[i].marker_cluster_max_zoom))

\* The rows as the table holds them.
StoredUsers(to_add) ==
  [i \in DOMAIN to_add |->
     [to_add[i] EXCEPT !.marker_cluster_max_zoom =
        IF IsSome(@) THEN Some(Val(@).lo) ELSE None]]

MaxUserId == 4

\* Authentication, then DELETE of every user and commit (main.py:509-532).
\* `before` records the users the request found, for the properties only.
save_maptech_users_begin(p, cookie, rows) ==
  /\ req[p].pc = "idle"
  /\ next_id["maptech_users"] + Len(rows) - 1 <= MaxUserId
  /\ IF GetCurrentAdmin(cookie) = {}
     THEN /\ resp' = HttpError(p, 401)
          /\ UNCHANGED <<req, maptech_users>>
     ELSE /\ maptech_users' = {}
          /\ req' = [req EXCEPT ![p] =
               [pc |-> "users_insert", rows |-> rows, before |-> maptech_users]]
          /\ resp' = resp
  /\ UNCHANGED <<customers, visit_schedules, admin_users, org_default_setting,
                 marker_color_setting, next_id, now, seed>>

\* The loop, db.add_all(to_add); db.commit() when to_add is not empty, or
\* on an exception db.rollback() and 500 (main.py:533-565).
save_maptech_users_insert(p) ==
  /\ req[p].pc = "users_insert"
  /\ LET built == ToAddUsers(req[p].rows) IN
       IF ~built.ok \/ UsersInsertFails(maptech_users, built.to_add)
       THEN /\ resp' = HttpError(p, 500)
            /\ UNCHANGED <<maptech_users, next_id>>
       ELSE /\ maptech_users' =
                 maptech_users
                   \cup WithIds(StoredUsers(built.to_add), next_id["maptech_users"])
            /\ next_id' = [next_id EXCEPT !["maptech_users"] = @ + Len(built.to_add)]
            /\ resp' = Ok(p, [status |-> "ok"])
  /\ req' = [req EXCEPT ![p] = Idle]
  /\ UNCHANGED <<customers, visit_schedules, admin_users, org_default_setting,
                 marker_color_setting, now, seed>>

(***************************************************************************)
(* PUT /api/user/settings: update_user_settings (main.py:847-864).         *)
(***************************************************************************)
\* Mutant of GetCurrentUser: any non-empty cookie is taken for a stored user.
GetCurrentUserAnyName(cookie) ==
  IF ~IsSome(cookie) \/ Val(cookie) = <<>> THEN {} ELSE maptech_users

\* _get_current_user (main.py:294-298): the rows the auth_user cookie names.
GetCurrentUser(cookie) ==
  IF ~IsSome(cookie) \/ Val(cookie) = <<>>
  THEN {}
  ELSE {u \in maptech_users : u.username = Val(cookie)}

\* MaptechUserSettings (main.py:261-268).
PrefFields ==
  {"transport_method", "route_origin", "map_display_type_main", "zoom_setting",
   "nearby_distance_km", "marker_cluster_max_zoom", "toll_usage"}

\* A validated payload: the keys the request body held (set) and the value
\* of every field, None for a field that was not sent.
Payload(set, val) ==
  [set |-> set, val |-> [f \in PrefFields |-> IF f \in set THEN val[f] ELSE None]]

\* Mutant of PayloadDict: payload.dict(), every field of the schema.
PayloadDictAll(payload) == [f \in PrefFields |-> payload.val[f]]

\* payload.dict(exclude_unset=True) (main.py:851).
PayloadDict(payload) == [f \in payload.set |-> payload.val[f]]

\* The value a column takes from an attribute value: the zoom is a Python
\* int until it is written.
ColumnValue(f, v) ==
  IF f = "marker_cluster_max_zoom" /\ IsSome(v) THEN Some(Val(v).lo) ELSE v

\* for field, value in ...: setattr(user, field, value) (main.py:851-852).
SetAttrs(user, d) ==
  [f \in DOMAIN user |-> IF f \in DOMAIN d THEN ColumnValue(f, d[f]) ELSE user[f]]

\* The response body (main.py:855-863).
SettingsBody(user) == [f \in PrefFields |-> user[f]]

\* The whole handler.  A zoom beyond INTEGER fails the commit: the request
\* ends with 500 and its session is rolled back (main.py:117-122).
\* `request` echoes the input, for the properties only.
update_user_settings(p, cookie, payload) ==
  /\ req[p].pc = "idle"
  /\ LET found == GetCurrentUser(cookie) IN
       IF found = {}
       THEN /\ resp' = HttpError(p, 401)
            /\ UNCHANGED maptech_users
       ELSE LET user == CHOOSE u \in found : TRUE
                d == PayloadDict(payload)
            IN  IF /\ "marker_cluster_max_zoom" \in DOMAIN d
                   /\ IsSome(d["marker_cluster_max_zoom"])
                   /\ ~FitsInteger(Val(d["marker_cluster_max_zoom"]))
                THEN /\ resp' = HttpError(p, 500)
                     /\ UNCHANGED maptech_users
                ELSE /\ maptech_users' = (maptech_users \ {user}) \cup {SetAttrs(user, d)}
                     /\ resp' = [Ok(p, SettingsBody(SetAttrs(user, d))) EXCEPT !.proc = p]
                                  @@ [request |-> [cookie |-> cookie, payload |-> payload]]
  /\ UNCHANGED <<customers, visit_schedules, admin_users, org_default_setting,
                 marker_color_setting, next_id, now, seed, req>>

\* Rows offered to POST /admin/users: a username with surrounding blanks,
\* the same username again, a user with numeric strings, an empty username,
\* a zoom beyond INTEGER, and an element that is no object.
SampleUserRows ==
  {RawUserRow(RawStr(<<" ", "a", " ">>), RawStr(<<"p">>), RawAbsent, RawAbsent, RawAbsent,
              RawAbsent, NoTexts),
   RawUserRow(RawStr(<<"a">>), RawStr(<<"q">>), RawInt(Small(9)), RawNull, RawNull,
              RawInt(Small(2)), [NoTexts EXCEPT !["transport_method"] = Some("car")]),
   RawUserRow(RawStr(<<"b">>), RawStr(<<"p">>), RawStr(<<"1", "2">>), RawAbsent, RawAbsent,
              RawStr(<<"2", ".", "5">>), [NoTexts EXCEPT !["toll_usage"] = Some("avoid")]),
   RawUserRow(RawStr(<<" ">>), RawStr(<<"p">>), RawAbsent, RawAbsent, RawAbsent,
              RawAbsent, NoTexts),
   RawUserRow(RawStr(<<"c">>), RawStr(<<"p">>), RawInt(TwoTo31), RawAbsent, RawAbsent,
              RawAbsent, NoTexts),
   NotAUserDict}

MaxUserRows == 2

UserPayloads == SeqsUpTo(SampleUserRows, MaxUserRows)

UserCookies == {None, Some(<<>>), Some(<<"d", "e", "m", "o">>), Some(<<"a">>), Some(<<"z">>)}

\* Bodies offered to PUT /api/user/settings: nothing, a text and an explicit
\* null, a distance, a zoom with the zoom setting, a zoom beyond INTEGER.
SettingsPayloads ==
  {Payload({}, [f \in PrefFields |-> None]),
   Payload({"transport_method", "toll_usage"},
           [f \in PrefFields |-> IF f = "transport_method" THEN Some("car") ELSE None]),
   Payload({"nearby_distance_km"}, [f \in PrefFields |-> Some(Dec(25, 1))]),
   Payload({"marker_cluster_max_zoom", "zoom_setting"},
           [f \in PrefFields |-> IF f = "zoom_setting" THEN Some("manual")
                                 ELSE Some(Small(15))]),
   Payload({"marker_cluster_max_zoom"}, [f \in PrefFields |-> Some(TwoTo31)])}

UsersBegin ==
  \E c \in AdminCookies, rows \in UserPayloads : save_maptech_users_begin(Worker, c, rows)
UsersInsert == save_maptech_users_insert(Worker)
UserSettingsUpdate ==
  \E c \in UserCookies, payload \in SettingsPayloads : update_user_settings(Worker, c, payload)

NextUsers == UsersBegin \/ UsersInsert \/ UserSettingsUpdate

SpecUsers == InitSeeded /\ [][NextUsers]_vars

(***************************************************************************)
(* Customers: create, update and POST /api/search/customers                *)
(* (main.py:675-693, 766-790).                                             *)
(***************************************************************************)
\* Customer.__table__.columns with their types (main.py:39-45).
CustomerColumns ==
  [id |-> "Integer", name |-> "String", address |-> "String", latitude |-> "Float",
   longitude |-> "Float", visit_status |-> "String", segment |-> "String"]

UpperCase == <<"A", "B", "C", "D", "E", "F", "G", "H", "I", "J", "K", "L", "M",
               "N", "O", "P", "Q", "R", "S", "T", "U", "V", "W", "X", "Y", "Z">>
LowerCase == <<"a", "b", "c", "d", "e", "f", "g", "h", "i", "j", "k", "l", "m",
               "n", "o", "p", "q", "r", "s", "t", "u", "v", "w", "x", "y", "z">>

\* Case folding of one character, as ILIKE compares.
Lower(c) ==
  IF \E i \in DOMAIN UpperCase : UpperCase[i] = c
  THEN LowerCase[CHOOSE i \in DOMAIN UpperCase : UpperCase[i] = c]
  ELSE c

\* text ILIKE pattern: % is any run of characters, _ any one character,
\* a backslash takes the next character literally.
RECURSIVE ILike(_, _)
ILike(text, pattern) ==
  IF pattern = <<>> THEN text = <<>>
  ELSE IF Head(pattern) = "%"
  THEN ILike(text, Tail(pattern)) \/ (text # <<>> /\ ILike(Tail(text), pattern))
  ELSE IF Head(pattern) = "_"
  THEN text # <<>> /\ ILike(Tail(text), Tail(pattern))
  ELSE IF Head(pattern) = "\\" /\ Len(pattern) >= 2
  THEN /\ text # <<>> /\ Lower(Head(text)) = Lower(pattern[2])
       /\ ILike(Tail(text), SubSeq(pattern, 3, Len(pattern)))
  ELSE /\ text # <<>> /\ Lower(Head(text)) = Lower(Head(pattern))
       /\ ILike(Tail(text), Tail(pattern))

\* The value of a text column of a row: None for NULL.
ColumnText(c, field) ==
  IF field \in {"visit_status", "segment"} THEN c[field] ELSE Some(c[field])

SearchFilter(field, value) == [field |-> field, value |-> value]

\* Mutant of FilterPasses: a number that does not parse matches no row.
FilterPassesStrict(f, c) ==
  IF f.field \notin DOMAIN CustomerColumns \/ f.value = <<>> THEN TRUE
  ELSE IF CustomerColumns[f.field] = "Float"
  THEN PyFloat(f.value).ok /\ c[f.field] = Val(PyFloat(f.value).v)
  ELSE IF CustomerColumns[f.field] = "Integer"
  THEN PyInt(f.value).ok /\ c[f.field] = Val(PyInt(f.value).v)
  ELSE IsSome(ColumnText(c, f.field))
       /\ ILike(Val(ColumnText(c, f.field)), <<"%">> \o f.value \o <<"%">>)

\* One turn of the loop over the filters (main.py:772-784): does row c
\* satisfy what filter f adds to the query?  A skipped filter adds nothing.
FilterPasses(f, c) ==
  IF f.field \notin DOMAIN CustomerColumns \/ f.value = <<>> THEN TRUE
  ELSE IF CustomerColumns[f.field] = "Float"
  THEN IF PyFloat(f.value).ok THEN c[f.field] = Val(PyFloat(f.value).v) ELSE TRUE
  ELSE IF CustomerColumns[f.field] = "Integer"
  THEN IF PyInt(f.value).ok THEN c[f.field] = Val(PyInt(f.value).v) ELSE TRUE
  ELSE IsSome(ColumnText(c, f.field))
       /\ ILike(Val(ColumnText(c, f.field)), <<"%">> \o f.value \o <<"%">>)

\* query.all() (main.py:786).
SearchRows(table, filters) ==
  {c \in table : \A i \in DOMAIN filters : FilterPasses(filters[i], c)}

\* One element of the response list (main.py:787-790).
SearchItem(c) ==
  [id |-> c.id, title |-> c.name, lat |-> c.latitude, lng |-> c.longitude,
   address |-> c.address]

\* The whole handler; the response list is kept as a set, the query has no
\* ORDER BY.  `request` echoes the input, for the properties only.
search_customers(p, filters) ==
  /\ req[p].pc = "idle"
  /\ resp' = Ok(p, {SearchItem(c) : c \in SearchRows(customers, filters)})
               @@ [request |-> [filters |-> filters]]
  /\ UNCHANGED <<tables, next_id, now, seed, req>>

MaxCustomerId == 2

\* create_customer (main.py:675-681).
create_customer(p, payload) ==
  /\ req[p].pc = "idle"
  /\ next_id["customers"] <= MaxCustomerId
  /\ customers' = customers \cup WithIds(<<payload>>, next_id["customers"])
  /\ next_id' = [next_id EXCEPT !["customers"] = @ + 1]
  /\ resp' = [proc |-> p, status |-> 201,
              body |-> [id |-> next_id["customers"]] @@ payload]
  /\ UNCHANGED <<visit_schedules, maptech_users, admin_users, org_default_setting,
                 marker_color_setting, now, seed, req>>

\* update_customer (main.py:684-693).
update_customer(p, customer_id, payload) ==
  /\ req[p].pc = "idle"
  /\ LET found == {c \in customers : c.id = customer_id} IN
       IF found = {}
       THEN /\ resp' = HttpError(p, 404)
            /\ UNCHANGED customers
       ELSE LET customer == CHOOSE c \in found : TRUE
                updated == [id |-> customer.id] @@ payload
            IN  /\ customers' = (customers \ {customer}) \cup {updated}
                /\ resp' = Ok(p, updated)
  /\ UNCHANGED <<visit_schedules, maptech_users, admin_users, org_default_setting,
                 marker_color_setting, next_id, now, seed, req>>

\* Bodies offered to create and update: a customer without status and
\* segment, and one whose name holds a wildcard character.
SampleCustomers ==
  {[name |-> <<"O", "s", "a", "k", "a">>, address |-> <<"O", "s", "a", "k", "a", "1">>,
    latitude |-> Dec(347, 1), longitude |-> FromInt(135),
    visit_status |-> None, segment |-> None],
   [name |-> <<"5", "0", "%">>, address |-> <<"T", "o", "k", "y", "o", "3">>,
    latitude |-> FromInt(1), longitude |-> FromInt(2),
    visit_status |-> Some(<<"n", "e", "w">>), segment |-> None]}

\* Filter pairs offered to the search: a relationship that is no column,
\* an empty value, numbers that do not parse and numbers that do, a text
\* in another case, and a text that is a LIKE wildcard.
SampleFilters ==
  <<SearchFilter("visits", <<"1">>),
    SearchFilter("name", <<>>),
    SearchFilter("id", <<"1", ".", "0">>),
    SearchFilter("latitude", <<"1", "e">>),
    SearchFilter("id", <<" ", "2">>),
    SearchFilter("latitude", <<"1", ".", "0">>),
    SearchFilter("name", <<"S", "A">>),
    SearchFilter("name", <<"_">>)>>

MaxFilters == 2

\* The elements of sequence s at the positions in I, in their order.
Pick(s, I) ==
  [k \in 1..Cardinality(I) |->
     s[CHOOSE i \in I : Cardinality({j \in I : j < i}) = k - 1]]

\* The filter lists offered: up to MaxFilters of the sample pairs.
SearchPayloads ==
  {Pick(SampleFilters, I) : I \in {J \in SUBSET DOMAIN SampleFilters :
                                     Cardinality(J) <= MaxFilters}}

CustomerCreate == \E payload \in SampleCustomers : create_customer(Worker, payload)
CustomerUpdate ==
  \E id \in 1..(MaxCustomerId + 1), payload \in SampleCustomers :
    update_customer(Worker, id, payload)
CustomerSearch == \E filters \in SearchPayloads : search_customers(Worker, filters)

NextSearch == CustomerCreate \/ CustomerUpdate \/ CustomerSearch

SpecSearch == InitDb /\ [][NextSearch]_vars

(***************************************************************************)
(* GET /api/markers/nearby: list_markers_nearby (main.py:642-667).         *)
(* Coordinates and distances are decimals with at most three places; the   *)
(* arithmetic is exact, in thousandths.                                    *)
(***************************************************************************)
\* A decimal in thousandths.
Milli(d) == d.m * Pow10(3 - d.e)

\* Python truthiness and sign of a float.
IsZero(d) == d.k = "num" /\ d.m = 0
LeZero(d) == d.k = "-inf" \/ (d.k = "num" /\ d.m <= 0)

\* The literal 5.0 (main.py:648, 650).
DefaultRadiusKm == FromInt(5)

\* Mutant of EffectiveRadius: without the check distance_km <= 0.
EffectiveRadiusUnchecked(stored) ==
  IF stored = None \/ IsZero(Val(stored)) THEN DefaultRadiusKm ELSE Val(stored)

\* distance_km (main.py:648-650): user.nearby_distance_km or 5.0, then 5.0
\* again when that is <= 0.
EffectiveRadius(stored) ==
  LET distance_km == IF stored = None \/ IsZero(Val(stored)) THEN DefaultRadiusKm
                     ELSE Val(stored)
  IN  IF LeZero(distance_km) THEN DefaultRadiusKm ELSE distance_km

\* The latitudes offered as centre, with abs(math.cos(math.radians(lat)))
\* in thousandths.
CosTable ==
  { <<FromInt(0), 1000>>, <<Dec(347, 1), 822>>, <<Dec(-347, 1), 822>>,
    <<FromInt(60), 500>>, <<FromInt(85), 87>>, <<FromInt(90), 0>> }

CenterLats == {t[1] : t \in CosTable}

AbsCosMilli(lat) == (CHOOSE t \in CosTable : t[1] = lat)[2]

\* Mutant of DenomMilli: without the floor of 0.1.
DenomMilliNoFloor(lat) == 111 * AbsCosMilli(lat)

\* denom = 111.0 * max(0.1, abs(cos(radians(lat)))) (main.py:653), in
\* thousandths.
DenomMilli(lat) ==
  111 * (IF AbsCosMilli(lat) < 100 THEN 100 ELSE AbsCosMilli(lat))

\* The two filters of the query (main.py:658-663) for row c: latitude and
\* longitude within [centre - delta, centre + delta], delta_lat = r / 111
\* and delta_lng = r / denom, compared after multiplying out the divisors.
InBox(c, lat, lng, distance_km) ==
  /\ 111 * (Milli(lat) - Milli(c.latitude)) <= Milli(distance_km)
  /\ 111 * (Milli(c.latitude) - Milli(lat)) <= Milli(distance_km)
  /\ DenomMilli(lat) * (Milli(lng) - Milli(c.longitude)) <= 1000 * Milli(distance_km)
  /\ DenomMilli(lat) * (Milli(c.longitude) - Milli(lng)) <= 1000 * Milli(distance_km)

\* The whole handler.  `request`, `distance_km` and `denom` echo the input
\* and two locals, for the properties only.
list_markers_nearby(p, cookie, lat, lng) ==
  /\ req[p].pc = "idle"
  /\ LET found == GetCurrentUser(cookie) IN
       IF found = {}
       THEN resp' = HttpError(p, 401)
       ELSE LET user == CHOOSE u \in found : TRUE
                distance_km == EffectiveRadius(user.nearby_distance_km)
            IN  resp' = Ok(p, {SearchItem(c) : c \in {x \in customers :
                                                      InBox(x, lat, lng, distance_km)}})
                          @@ [request |-> [cookie |-> cookie, lat |-> lat, lng |-> lng],
                              distance_km |-> distance_km, denom |-> DenomMilli(lat)]
  /\ UNCHANGED <<tables, next_id, now, seed, req>>

\* A customer with the given position.
CustomerAt(name, lat, lng) ==
  [name |-> name, address |-> name, latitude |-> lat, longitude |-> lng,
   visit_status |-> None, segment |-> None]

\* Customers created through the API around the centres.
NearbyCustomers ==
  {CustomerAt(<<"B">>, Dec(34745, 3), Dec(13505, 2)),
   CustomerAt(<<"C">>, Dec(34746, 3), FromInt(135)),
   CustomerAt(<<"D">>, Dec(347, 1), Dec(135055, 3)),
   CustomerAt(<<"E">>, Dec(8999, 2), Dec(13545, 2)),
   CustomerAt(<<"G">>, Dec(8999, 2), Dec(1355, 1)),
   CustomerAt(<<"F">>, Dec(348, 1), FromInt(135))}

\* The distances a user sets: none, zero, a negative one, and positive ones.
NearbySettings ==
  {Payload({"nearby_distance_km"}, [f \in PrefFields |-> v])
     : v \in {None, Some(FromInt(0)), Some(FromInt(-1)), Some(Dec(25, 1)), Some(Dec(111, 1))}}

CenterLngs == {FromInt(135)}

\* The database when a customer was created through the API before the
\* seeding ran: seed_if_empty leaves the customers as they are and fills
\* the other tables (main.py:128, 150-208).
InitNearby ==
  /\ now = 12
  /\ customers = WithIds(<<CustomerAt(<<"A">>, Dec(347, 1), FromInt(135))>>, 1)
  /\ visit_schedules = WithIds(SeedVisits, 1)
  /\ maptech_users = WithIds(SeedUsers, 1)
  /\ admin_users = WithIds(SeedAdmins, 1)
  /\ org_default_setting = WithIds(SeedOrg, 1)
  /\ marker_color_setting = WithIds(SeedColors, 1)
  /\ next_id = [t \in TableNames |->
                  IF t = "customers" THEN 2 ELSE Len(SeedRows(t)) + 1]
  /\ seed = SeedDone
  /\ req = [p \in Procs |-> Idle]
  /\ resp = NoResp

NearbyCreate == \E payload \in NearbyCustomers : create_customer(Worker, payload)
NearbySetRadius ==
  \E payload \in NearbySettings :
    update_user_settings(Worker, Some(<<"d", "e", "m", "o">>), payload)
NearbyList ==
  \E c \in UserCookies, lat \in CenterLats, lng \in CenterLngs :
    list_markers_nearby(Worker, c, lat, lng)

NextNearby == NearbyCreate \/ NearbySetRadius \/ NearbyList

SpecNearby == InitNearby /\ [][NextNearby]_vars

(***************************************************************************)
(* Visits and GET /api/markers (main.py:282-291, 620-639, 696-756).        *)
(* A point in time is a number of hours; its ISO text is written here in   *)
(* the short form <day>T<hour>, one digit for the day and two for the      *)
(* hour, as in "1T09".                                                     *)
(***************************************************************************)
\* datetime.fromisoformat (main.py:289) on the short form.
FromIsoFormat(t) ==
  IF /\ Len(t) = 4 /\ t[1] \in Digits /\ t[2] = "T" /\ t[3] \in Digits /\ t[4] \in Digits
     /\ 10 * DigitVal(t[3]) + DigitVal(t[4]) < 24
  THEN Parsed(24 * DigitVal(t[1]) + 10 * DigitVal(t[3]) + DigitVal(t[4]))
  ELSE Failed

\* _parse_datetime (main.py:282-291): ok = FALSE stands for the 400;
\* v is the datetime or None.
ParseDatetime(value) ==
  IF value = None \/ Val(value) = <<>> \/ Val(value) = <<"n", "u", "l", "l">>
  THEN [ok |-> TRUE, v |-> None]
  ELSE FromIsoFormat(Val(value))

\* VisitCreate (main.py:230-236).
VisitPayload(name, start_at, end_at, customer_id) ==
  [name |-> name, start_at |-> start_at, end_at |-> end_at, result |-> None,
   detail |-> None, customer_id |-> customer_id]

\* The row built from a payload whose datetimes parsed (main.py:703-710,
\* 729-734).
VisitRow(payload) ==
  [payload EXCEPT !.start_at = ParseDatetime(payload.start_at).v,
                  !.end_at = ParseDatetime(payload.end_at).v]

\* Mutant of VisitCommitFails: without the foreign key.
VisitCommitFailsNoFk(row) == row.start_at = None

\* The commit fails on a missing start_at (nullable=False, main.py:54) and
\* on a customer_id that is no stored customer (ForeignKey, main.py:59).
VisitCommitFails(row) ==
  \/ row.start_at = None
  \/ row.customer_id # None /\ Val(row.customer_id) \notin {c.id : c \in customers}

MaxVisitId == 2

\* create_visit (main.py:701-722).  `request` echoes the input, for the
\* properties only.
create_visit(p, payload) ==
  /\ req[p].pc = "idle"
  /\ next_id["visit_schedules"] <= MaxVisitId
  /\ IF ~ParseDatetime(payload.start_at).ok \/ ~ParseDatetime(payload.end_at).ok
     THEN /\ resp' = HttpError(p, 400) @@ [request |-> [op |-> "create_visit", payload |-> payload]]
          /\ UNCHANGED <<visit_schedules, next_id>>
     ELSE IF VisitCommitFails(VisitRow(payload))
     THEN /\ resp' = HttpError(p, 500) @@ [request |-> [op |-> "create_visit", payload |-> payload]]
          /\ UNCHANGED <<visit_schedules, next_id>>
     ELSE /\ visit_schedules' =
               visit_schedules \cup WithIds(<<VisitRow(payload)>>, next_id["visit_schedules"])
          /\ next_id' = [next_id EXCEPT !["visit_schedules"] = @ + 1]
          /\ resp' = [proc |-> p, status |-> 201,
                      body |-> [id |-> next_id["visit_schedules"]] @@ VisitRow(payload),
                      request |-> [op |-> "create_visit", payload |-> payload]]
  /\ UNCHANGED <<customers, maptech_users, admin_users, org_default_setting,
                 marker_color_setting, now, seed, req>>

\* update_visit (main.py:725-746).  The assignments before a failing
\* _parse_datetime are lost with the request's session (main.py:117-122).
update_visit(p, visit_id, payload) ==
  /\ req[p].pc = "idle"
  /\ LET found == {v \in visit_schedules : v.id = visit_id}
         echo == [request |-> [op |-> "update_visit", visit_id |-> visit_id,
                               payload |-> payload]]
     IN  IF found = {}
         THEN /\ resp' = HttpError(p, 404) @@ echo
              /\ UNCHANGED visit_schedules
         ELSE IF ~ParseDatetime(payload.start_at).ok \/ ~ParseDatetime(payload.end_at).ok
         THEN /\ resp' = HttpError(p, 400) @@ echo
              /\ UNCHANGED visit_schedules
         ELSE IF VisitCommitFails(VisitRow(payload))
         THEN /\ resp' = HttpError(p, 500) @@ echo
              /\ UNCHANGED visit_schedules
         ELSE LET visit == CHOOSE v \in found : TRUE
                  updated == [id |-> visit.id] @@ VisitRow(payload)
              IN  /\ visit_schedules' = (visit_schedules \ {visit}) \cup {updated}
                  /\ resp' = Ok(p, updated) @@ echo
  /\ UNCHANGED <<customers, maptech_users, admin_users, org_default_setting,
                 marker_color_setting, next_id, now, seed, req>>

\* delete_visit (main.py:749-756).
delete_visit(p, visit_id) ==
  /\ req[p].pc = "idle"
  /\ LET found == {v \in visit_schedules : v.id = visit_id} IN
       IF found = {}
       THEN /\ resp' = HttpError(p, 404)
            /\ UNCHANGED visit_schedules
       ELSE /\ visit_schedules' = visit_schedules \ found
            /\ resp' = [proc |-> p, status |-> 204]
  /\ UNCHANGED <<customers, maptech_users, admin_users, org_default_setting,
                 marker_color_setting, next_id, now, seed, req>>

\* start of today (main.py:625-626).
Midnight(t) == t - (t % 24)

\* The join with the filter on start_at (main.py:629-632): one row for
\* each pair of a customer and a visit of it that starts today.
MarkerJoin ==
  {<<c, v>> \in customers \X visit_schedules :
     /\ v.customer_id = Some(c.id)
     /\ Val(v.start_at) >= Midnight(now) /\ Val(v.start_at) < Midnight(now) + 24}

\* Mutant of MarkerCount: every row of the join, without the DISTINCT ON.
MarkerCountJoined(c) == Cardinality({j \in MarkerJoin : j[1] = c})

\* .distinct(Customer.id) (main.py:633): how often customer c is listed.
MarkerCount(c) == IF \E j \in MarkerJoin : j[1] = c THEN 1 ELSE 0

\* list_markers (main.py:620-639): the response list, as the number of
\* times each item occurs in it.
list_markers(p) ==
  /\ req[p].pc = "idle"
  /\ resp' = [proc |-> p, status |-> 200,
              markers |-> [i \in {SearchItem(c) : c \in {x \in customers : MarkerCount(x) > 0}}
                             |-> MarkerCount(CHOOSE c \in customers : SearchItem(c) = i)]]
  /\ UNCHANGED <<tables, next_id, now, seed, req>>

\* Bodies offered to create and update a visit: today at midnight, tomorrow
\* at midnight, a customer that does not exist, texts that are no date,
\* the text "null" as end, and no start.
SampleVisits ==
  {VisitPayload("v1", Some(<<"0", "T", "0", "0">>), None, Some(1)),
   VisitPayload("v2", Some(<<"1", "T", "0", "0">>), Some(<<"1", "T", "0", "1">>), Some(2)),
   VisitPayload("v3", Some(<<"0", "T", "0", "9">>), None, Some(9)),
   VisitPayload("v4", Some(<<"x">>), None, Some(1)),
   VisitPayload("v5", Some(<<"0", "T", "2", "3">>), Some(<<"n", "u", "l", "l">>), Some(1)),
   VisitPayload("v6", None, None, Some(1)),
   VisitPayload("v7", Some(<<"0", "T", "0", "9">>), Some(<<"0", "T", "2", "4">>), None),
   VisitPayload("v8", Some(<<"0", "T", "0", "9">>), Some(<<>>), None)}

VisitCreate == \E payload \in SampleVisits : create_visit(Worker, payload)
VisitUpdate ==
  \E id \in 1..MaxVisitId, payload \in SampleVisits : update_visit(Worker, id, payload)
VisitDelete == \E id \in 1..MaxVisitId : delete_visit(Worker, id)
MarkersList == list_markers(Worker)

NextVisits == VisitCreate \/ VisitUpdate \/ VisitDelete \/ MarkersList

SpecVisits == InitSeeded /\ [][NextVisits]_vars

(***************************************************************************)
(* Bulk replaces interleaved with other requests at their commits.         *)
(***************************************************************************)
\* The rows an admin saves while other requests run: one rule, and the
\* seeded user again.
RaceColorRows == <<RawColorRow(RawInt(Small(5)), SampleFields("#c"))>>

RaceUserRows ==
  <<RawUserRow(RawStr(<<"d", "e", "m", "o">>), RawStr(<<"d", "e", "m", "o">>), RawAbsent,
               RawAbsent, RawAbsent, RawAbsent, NoTexts)>>

ReplaceColorsBegin ==
  \E p \in Procs : save_marker_colors_begin(p, Some("admin"), RaceColorRows)
ReplaceColorsInsert == \E p \in Procs : save_marker_colors_insert(p)
ReplaceUsersBegin ==
  \E p \in Procs : save_maptech_users_begin(p, Some("admin"), RaceUserRows)
ReplaceUsersInsert == \E p \in Procs : save_maptech_users_insert(p)
ReplacePageBegin == \E p \in Procs : admin_settings_page_begin(p, Some("admin"))
ReplacePageRender == \E p \in Procs : admin_settings_page_render(p)
ReplaceUserRequest ==
  \E p \in Procs :
    update_user_settings(p, Some(<<"d", "e", "m", "o">>), Payload({}, [f \in PrefFields |-> None]))

NextReplaceRace ==
  \/ ReplaceColorsBegin
  \/ ReplaceColorsInsert
  \/ ReplaceUsersBegin
  \/ ReplaceUsersInsert
  \/ ReplacePageBegin
  \/ ReplacePageRender
  \/ ReplaceUserRequest

SpecReplaceRace == InitSeeded /\ [][NextReplaceRace]_vars

(***************************************************************************)
(* GET /MobileMapPage (main.py:568-589) and the access checks of the       *)
(* admin and user endpoints.                                               *)
(***************************************************************************)
\* DEFAULT_GOOGLE_MAPS_API_KEY (main.py:22): not empty (config.py:33-35).
DefaultApiKey == <<"k">>

\* _clean_api_key (main.py:17-19).
CleanApiKey(raw) == IF raw = None THEN <<>> ELSE Strip(Val(raw))

\* The whole handler.  The user query closes its session before the page
\* is rendered.
mobile_map_page(p, cookie, api_key) ==
  /\ req[p].pc = "idle"
  /\ IF GetCurrentUser(cookie) = {}
     THEN resp' = Redirect(p, "/LoginPage")
     ELSE LET key_to_use == IF api_key # None /\ Val(api_key) # <<>>
                            THEN CleanApiKey(api_key) ELSE DefaultApiKey
          IN  IF key_to_use = <<>>
              THEN resp' = HttpError(p, 500)
              ELSE resp' = Ok(p, [google_maps_api_key |-> key_to_use])
  /\ UNCHANGED <<tables, next_id, now, seed, req>>

\* GET /api/user/settings: get_user_settings (main.py:831-844).
get_user_settings(p, cookie) ==
  /\ req[p].pc = "idle"
  /\ LET found == GetCurrentUser(cookie) IN
       IF found = {}
       THEN resp' = HttpError(p, 401)
       ELSE resp' = Ok(p, SettingsBody(CHOOSE u \in found : TRUE))
  /\ UNCHANGED <<tables, next_id, now, seed, req>>

ApiKeys == {None, Some(<<" ">>), Some(<<"q", " ">>)}

\* The user lists an admin saves: nobody, and the seeded user again.
AccessUserRows == {<<>>, RaceUserRows}

\* Cookies sent to the user endpoints: none, empty, the seeded user, a
\* name no row carries.
AccessUserCookies == {None, Some(<<>>), Some(<<"d", "e", "m", "o">>), Some(<<"z">>)}

AccessPayloads ==
  {Payload({"nearby_distance_km"}, [f \in PrefFields |-> v]) : v \in {None, Some(Dec(25, 1))}}

AccessLats == {FromInt(0)}

AccessSettings == \E c \in AdminCookies, f \in RaceForms :
                    update_admin_settings_begin(Worker, c, f)
AccessSettingsCommit == update_admin_settings_commit(Worker)
AccessColors == \E c \in AdminCookies : save_marker_colors_begin(Worker, c, RaceColorRows)
AccessColorsInsert == save_marker_colors_insert(Worker)
AccessUsers == \E c \in AdminCookies, rows \in AccessUserRows :
                 save_maptech_users_begin(Worker, c, rows)
AccessUsersInsert == save_maptech_users_insert(Worker)
AccessUserSettings == \E c \in AccessUserCookies, payload \in AccessPayloads :
                        update_user_settings(Worker, c, payload)
AccessGetSettings == \E c \in AccessUserCookies : get_user_settings(Worker, c)
AccessNearby == \E c \in AccessUserCookies, lat \in AccessLats, lng \in CenterLngs :
                  list_markers_nearby(Worker, c, lat, lng)
AccessMobileMap == \E c \in AccessUserCookies, k \in ApiKeys : mobile_map_page(Worker, c, k)

NextAccess ==
  \/ AccessSettings
  \/ AccessSettingsCommit
  \/ AccessColors
  \/ AccessColorsInsert
  \/ AccessUsers
  \/ AccessUsersInsert
  \/ AccessUserSettings
  \/ AccessGetSettings
  \/ AccessNearby
  \/ AccessMobileMap

SpecAccess == InitNearby /\ [][NextAccess]_vars

(***************************************************************************)
(* Rule matching and resolution.  The page hands the ordered rules to the  *)
(* map client, which colours each marker; the matching itself is not in    *)
(* main.py and follows sections 4.1 and 4.2 of the specification.          *)
(***************************************************************************)
\* needle occurs in hay (both character sequences).
Contains(hay, needle) ==
  \E i \in 1..(Len(hay) - Len(needle) + 1) :
    SubSeq(hay, i, i + Len(needle) - 1) = needle

\* A record to colour: its entity kind and its text fields.
MarkerRecord(kind, fields) == [kind |-> kind, fields |-> fields]

\* 4.1: one rule against one record.  A rule whose field the record lacks,
\* or whose match_value is empty, never matches; otherwise the condition
\* label decides.
RuleMatches(rule, x) ==
  /\ IsSome(rule.field_name) /\ Val(rule.field_name) \in DOMAIN x.fields
  /\ IsSome(rule.match_value) /\ Val(rule.match_value) # <<>>
  /\ IsSome(rule.match_condition)
  /\ LET text == x.fields[Val(rule.field_name)]
         mv == Val(rule.match_value)
         cond == Val(rule.match_condition)
     IN  CASE cond = CondContains -> Contains(text, mv)
           [] cond = CondEquals -> text = mv
           [] cond = CondNotContains -> ~Contains(text, mv)
           [] cond = CondNotEquals -> text # mv
           [] OTHER -> FALSE

\* 4.2: only rules whose target is the record's kind are candidates.
RuleApplies(rule, x) == rule.target = Some(x.kind) /\ RuleMatches(rule, x)

\* 4.2: the first applicable rule of the ordered list wins; None when no
\* rule applies.
RECURSIVE FirstMatch(_, _)
FirstMatch(ordered, x) ==
  IF ordered = <<>> THEN None
  ELSE IF RuleApplies(Head(ordered), x)
  THEN Some([color |-> Head(ordered).color, marker_style |-> Head(ordered).marker_style])
  ELSE FirstMatch(Tail(ordered), x)

\* The marker's colour and style from the rules as the page lists them.
resolve_marker(p, x) ==
  /\ req[p].pc = "idle"
  /\ resp' = Ok(p, [record |-> x,
                    marker |-> FirstMatch(MarkerColorsOrdered(marker_color_setting), x)])
  /\ UNCHANGED <<tables, next_id, now, seed, req>>

\* Rule tables drawn for the resolution: at most MaxRules rules, with ids
\* 1..MaxRules, each with a priority (or none), a target and a condition;
\* the colour names the rule.
MaxRules == 3

RuleChoices ==
  {ColorRow(pr, Some(tc[1]), Some(tc[2]), Some(tc[4]), Some(tc[3]), Some(""), Some(""))
     : pr \in {None, Some(1), Some(2)},
       tc \in {<<TargetCustomer, "address", CondContains, <<"o">> >>,
               <<TargetCustomer, "address", CondNotEquals, <<"T", "o">> >>,
               <<TargetVisit, "result", CondContains, <<"o">> >>} }

\* The table holding, for each id in ids, the rule f[id].
RuleTable(ids, f) ==
  {[id |-> i] @@ [f[i] EXCEPT !.color = Some(ToString(i))] : i \in ids}

SampleRecords ==
  {MarkerRecord(TargetCustomer, [address |-> <<"T", "o">>, name |-> <<"A">>]),
   MarkerRecord(TargetCustomer, [address |-> <<"K", "y">>, name |-> <<"B">>]),
   MarkerRecord(TargetVisit, [result |-> <<"o", "k">>, name |-> <<"v">>])}

InitRules ==
  /\ now = 12
  /\ customers = WithIds(SeedCustomers, 1)
  /\ visit_schedules = WithIds(SeedVisits, 1)
  /\ maptech_users = WithIds(SeedUsers, 1)
  /\ admin_users = WithIds(SeedAdmins, 1)
  /\ org_default_setting = WithIds(SeedOrg, 1)
  /\ \E ids \in SUBSET (1..MaxRules) : \E f \in [ids -> RuleChoices] :
       marker_color_setting = RuleTable(ids, f)
  /\ next_id = [t \in TableNames |-> Len(SeedRows(t)) + 1]
  /\ seed = SeedDone
  /\ req = [p \in Procs |-> Idle]
  /\ resp = NoResp

ResolveMarker == \E x \in SampleRecords : resolve_marker(Worker, x)

NextRules == ResolveMarker

SpecRules == InitRules /\ [][NextRules]_vars

(***************************************************************************)
(* Properties of the organisation settings.                                *)
(***************************************************************************)
OrgRows == Cardinality(org_default_setting)

\* A response that only a request that went through the get-or-create
\* resolver sends: the rendered page or the success redirect.
ResolverCompleted ==
  \/ resp.status = 200
  \/ resp.status = 303 /\ resp.location = "/AdminSettings?success=1"

\* C3: OrgDefaultSetting is a singleton under any interleaving of the
\* requests that call the get-or-create resolver (and of the seed script):
\* the table never holds more than one row, and holds exactly one once such
\* a request has completed.
C3_OrgSingleton ==
  /\ OrgRows <= 1
  /\ ResolverCompleted => OrgRows = 1

\* The fixed defaults, spelled out.
HasFixedDefaults(s) ==
  /\ s.search_limit = Some(10000)
  /\ s.nearby_distance_km = Some([k |-> "num", m |-> 3, e |-> 0])
  /\ s.entry_exit_interval = Some("30min")
  /\ s.enable_area = FALSE
  /\ s.enable_group = FALSE

\* C4: get-or-create is idempotent.  The step that creates the row (the call
\* found the table empty) leaves exactly one row, holding the fixed defaults,
\* and hands that row to the caller; a call that starts on a non-empty table
\* creates nothing, changes no field and hands back a stored row; rendering
\* the page changes nothing and shows a stored row.
C4_GetOrCreateIdempotent ==
  [][/\ (req[Worker].pc = "org_create" /\ req'[Worker].pc # "org_create") =>
          /\ Cardinality(org_default_setting') = 1
          /\ \E s \in org_default_setting' :
               HasFixedDefaults(s) /\ req'[Worker].setting = Some(s)
     /\ (req[Worker].pc = "idle" /\ req'[Worker].pc # "idle"
           /\ org_default_setting # {}) =>
          /\ org_default_setting' = org_default_setting
          /\ req'[Worker].pc # "org_create"
          /\ req'[Worker].setting \in {Some(s) : s \in org_default_setting}
     /\ (req[Worker].pc = "page_render" /\ req'[Worker].pc = "idle") =>
          /\ org_default_setting' = org_default_setting
          /\ resp'.body.setting \in org_default_setting
    ]_vars

\* C4 witness: the resolver created the row (the seed script has not reached
\* the table), a page was served from it, and a later call found it again.
C4_Witness ==
  /\ seed.tbl <= 5
  /\ seed.phase = "check"
  /\ OrgRows = 1
  /\ resp.status = 200
  /\ req[Worker].pc = "page_render"
  /\ req[Worker].setting = Some(resp.body.setting)

\* The cookie names a stored admin.
IsAdminCookie(c) == \E a \in admin_users : c = Some(a.username)

\* The field is non-empty and Python's int() / float() rejects it.
NotAnInt(field) == field # None /\ field # Some(<<>>) /\ ~PyInt(Val(field)).ok
NotAFloat(field) == field # None /\ field # Some(<<>>) /\ ~PyFloat(Val(field)).ok

\* C8: a POST /AdminSettings by an admin whose search_limit or
\* nearby_distance_km is non-empty and not a number is aborted: the caller
\* is redirected to /AdminSettings?error=<message>, no row of
\* org_default_setting changes and none is created.
C8_BadNumberAborts ==
  [][req[Worker].pc = "idle" =>
     \A c \in AdminCookies, f \in AdminForms :
       (/\ IsAdminCookie(c)
        /\ NotAnInt(f.search_limit) \/ NotAFloat(f.nearby_distance_km)
        /\ update_admin_settings_begin(Worker, c, f)) =>
          /\ org_default_setting' = org_default_setting
          /\ next_id' = next_id
          /\ req'[Worker].pc = "idle"
          /\ resp'.status = 303
          /\ resp'.location = "/AdminSettings?error"
          /\ resp'.error \in {MsgSearchLimit, MsgNearbyDistance}
    ]_vars

\* C8 witness: a validation error was reported while a settings row is stored.
C8_Witness ==
  /\ resp.status = 303
  /\ resp.location = "/AdminSettings?error"
  /\ resp.error = MsgNearbyDistance
  /\ OrgRows = 1

\* C9: the stored entry_exit_interval is always one of the three interval
\* labels; the commit of a settings update stores the submitted label when it
\* is one of the three and the 15-minute label otherwise (an absent field
\* submits the form default, the 15-minute label).
C9_IntervalInSet ==
  /\ [](\A s \in org_default_setting :
          s.entry_exit_interval \in {Some("10min"), Some("15min"), Some("30min")})
  /\ [][(req[Worker].pc = "org_update" /\ req'[Worker].pc = "idle") =>
          LET raw == req[Worker].form.entry_exit_interval
              submitted == IF raw = None THEN "15min" ELSE Val(raw)
              expected == IF submitted \in {"10min", "15min", "30min"}
                          THEN submitted ELSE "15min"
          IN  \E s \in org_default_setting' :
                /\ s.id = Val(req[Worker].setting).id
                /\ s.entry_exit_interval = Some(expected)
       ]_vars

\* C9 witness: an update has succeeded and the fallback label is stored.
C9_Witness ==
  /\ resp.status = 303
  /\ resp.location = "/AdminSettings?success=1"
  /\ \E s \in org_default_setting : s.entry_exit_interval = Some("15min")
(***************************************************************************)
(* Properties of the marker-colour rules.                                  *)
(***************************************************************************)
\* C1: the bulk replace of the rules is all-or-nothing: when the request
\* fails (it answers 500), the stored rule set is the set stored before the
\* request.
C1_ColorsReplaceAtomic ==
  [][(req[Worker].pc = "colors_insert" /\ resp'.status = 500) =>
       marker_color_setting' = req[Worker].before]_vars

\* The priority a payload row asks for explicitly, if any.
ExplicitPriority(raw) ==
  CASE raw.priority.t = "int" -> Some(raw.priority.n.lo)
    [] raw.priority.t = "str" -> PyInt(raw.priority.s).v
    [] OTHER -> None

\* C6: after a successful bulk replace with list L the stored rules are
\* exactly one rule per element of L, in L's order; a row without explicit
\* priority is stored with its 1-based position, a row with an explicit
\* priority with that priority.
C6_ReplaceStoresList ==
  [][(req[Worker].pc = "colors_insert" /\ resp'.status = 200) =>
       LET L == req[Worker].rows_data
           stored == ById(marker_color_setting')
       IN  /\ Len(stored) = Len(L)
           /\ \A i \in DOMAIN L :
                /\ stored[i].color = L[i].fields.color
                /\ stored[i].target = L[i].fields.target
                /\ stored[i].field_name = L[i].fields.field_name
                /\ stored[i].match_value = L[i].fields.match_value
                /\ stored[i].match_condition = L[i].fields.match_condition
                /\ stored[i].marker_style = L[i].fields.marker_style
                /\ stored[i].priority =
                     IF IsSome(ExplicitPriority(L[i]))
                     THEN ExplicitPriority(L[i]) ELSE Some(i)
    ]_vars
\* The order the claim words: numbered priorities ascending, null priorities
\* after all numbered ones, ties broken by id.
SortsFirst(a, b) ==
  \/ a.priority # None /\ b.priority = None
  \/ a.priority # None /\ b.priority # None /\ Val(a.priority) < Val(b.priority)
  \/ a.priority = b.priority /\ a.id < b.id

\* C5: the resolved colour and style of a record are those of the first
\* rule, in ascending priority order (nulls last, ties by id), whose target
\* is the record's kind and whose condition matches; with no such rule, no
\* rule's colour or style is applied.
C5_FirstMatchingRuleWins ==
  (resp.status = 200 /\ "marker" \in DOMAIN resp.body) =>
    LET x == resp.body.record
        applicable == {r \in marker_color_setting : RuleApplies(r, x)}
    IN  IF applicable = {}
        THEN resp.body.marker = None
        ELSE \E r \in applicable :
               /\ \A o \in applicable \ {r} : SortsFirst(r, o)
               /\ resp.body.marker =
                    Some([color |-> r.color, marker_style |-> r.marker_style])

\* C5 witness: a rule without priority and a numbered rule with a larger id
\* both apply, and the numbered one coloured the marker.
C5_Witness ==
  /\ resp.status = 200 /\ "marker" \in DOMAIN resp.body
  /\ \E r, o \in marker_color_setting :
       /\ RuleApplies(r, resp.body.record) /\ RuleApplies(o, resp.body.record)
       /\ o.priority = None /\ r.priority # None /\ o.id < r.id
       /\ resp.body.marker = Some([color |-> r.color, marker_style |-> r.marker_style])

\* C2: when the bulk replace of the users fails partway (answers 500), the
\* stored users after the request are the users stored before it.
C2_UsersReplaceAtomic ==
  [][(req[Worker].pc = "users_insert" /\ resp'.status = 500) =>
       maptech_users' = req[Worker].before]_vars

NonPrefFields ==
  {"id", "username", "password", "saved_search_conditions", "origin_lng", "origin_lat",
   "map_display_type_adjust", "visit_status", "past_visit_edit"}

\* The step is a successful PUT /api/user/settings.
SettingsUpdated ==
  req[Worker].pc = "idle" /\ req' = req /\ resp'.status = 200 /\ "request" \in DOMAIN resp'

\* C7: a successful settings update overwrites, on the caller's row, exactly
\* the preference fields present in the payload with the supplied values;
\* absent fields, the other columns, every other user's row and every
\* other table stay as they were.
C7_SettingsPartialMerge ==
  [][SettingsUpdated =>
       LET who == Val(resp'.request.cookie)
           payload == resp'.request.payload
       IN  /\ \A u \in maptech_users : u.username # who => u \in maptech_users'
           /\ Cardinality(maptech_users') = Cardinality(maptech_users)
           /\ \E u \in maptech_users, v \in maptech_users' :
                /\ u.username = who /\ v.id = u.id
                /\ \A f \in NonPrefFields : v[f] = u[f]
                /\ \A f \in PrefFields \ payload.set : v[f] = u[f]
                /\ \A f \in payload.set :
                     v[f] = IF f = "marker_cluster_max_zoom" /\ payload.val[f] # None
                            THEN Some(Val(payload.val[f]).lo) ELSE payload.val[f]
           /\ UNCHANGED <<customers, visit_schedules, admin_users, org_default_setting,
                          marker_color_setting>>]_vars

\* C7 witness: a user other than the seeded one sent a distance only; the
\* stored distance is the sent one and the stored zoom, which was not sent,
\* still has the value it was created with.
C7_Witness ==
  /\ resp.status = 200 /\ "request" \in DOMAIN resp
  /\ resp.request.cookie = Some(<<"a">>)
  /\ resp.request.payload.set = {"nearby_distance_km"}
  /\ \E u \in maptech_users :
       /\ u.username = <<"a">> /\ u.nearby_distance_km = Some(Dec(25, 1))
       /\ u.marker_cluster_max_zoom = Some(9)
  /\ Cardinality(maptech_users) = 2

\* A filter pair the search has to drop: its field is no Customer column,
\* its value is empty, or its value does not read as the number the
\* column holds.
NotANumberFor(field, value) ==
  \/ field \in {"latitude", "longitude"} /\ ~PyFloat(value).ok
  \/ field = "id" /\ ~PyInt(value).ok

Dropped(f) ==
  \/ f.field \notin {"id", "name", "address", "latitude", "longitude", "visit_status",
                     "segment"}
  \/ f.value = <<>>
  \/ NotANumberFor(f.field, f.value)

\* The step is a customer search.
Searched == req[Worker].pc = "idle" /\ resp'.status = 200 /\ "request" \in DOMAIN resp'
              /\ "filters" \in DOMAIN resp'.request /\ resp' # resp

\* Removing one pair from a filter list.
Without(filters, i) == SubSeq(filters, 1, i - 1) \o SubSeq(filters, i + 1, Len(filters))

\* C10: the search answers without error; a dropped pair does not change
\* the answer (the answer is that of the request without the pair); when
\* every pair is dropped the answer is the full customer set; and the
\* search changes no stored data.
C10_SearchDropsBadFilters ==
  [][Searched =>
       LET filters == resp'.request.filters IN
         /\ \A i \in DOMAIN filters :
              Dropped(filters[i]) =>
                resp'.body = {SearchItem(c) : c \in SearchRows(customers, Without(filters, i))}
         /\ (\A i \in DOMAIN filters : Dropped(filters[i])) =>
              resp'.body = {SearchItem(c) : c \in customers}
         /\ UNCHANGED <<tables, next_id>>]_vars

\* C10 witness: a search whose two pairs are an unknown field and a number
\* that does not parse answered with both stored customers.
C10_Witness ==
  /\ resp.status = 200 /\ "request" \in DOMAIN resp /\ "filters" \in DOMAIN resp.request
  /\ resp.request.filters = <<SearchFilter("visits", <<"1">>), SearchFilter("latitude", <<"1", "e">>)>>
  /\ Cardinality(customers) = 2
  /\ resp.body = {SearchItem(c) : c \in customers}

\* Folding a text to lower case.
LowerText(t) == [i \in DOMAIN t |-> Lower(t[i])]

\* What a surviving pair asks of a customer, in the claim's words: equality
\* with the parsed number for a numeric column, the value as a
\* case-insensitive substring for a text column.
Satisfies(f, c) ==
  IF f.field \in {"latitude", "longitude"} THEN c[f.field] = Val(PyFloat(f.value).v)
  ELSE IF f.field = "id" THEN c.id = Val(PyInt(f.value).v)
  ELSE /\ IsSome(ColumnText(c, f.field))
       /\ Contains(LowerText(Val(ColumnText(c, f.field))), LowerText(f.value))

\* C11: the answer of a customer search is exactly the set of customers
\* that satisfy every surviving filter pair: numeric columns equal the
\* parsed number, text columns contain the value case-insensitively.
C11_SearchIsConjunction ==
  [][Searched =>
       LET filters == resp'.request.filters IN
         resp'.body =
           {SearchItem(c) : c \in {x \in customers :
              \A i \in DOMAIN filters : Dropped(filters[i]) \/ Satisfies(filters[i], x)}}]_vars

\* The step is a nearby query that was answered.
NearbyAnswered ==
  req[Worker].pc = "idle" /\ resp' # resp /\ resp'.status = 200
    /\ "distance_km" \in DOMAIN resp'

\* The rows the nearby query was asked by.
Asker == {u \in maptech_users : Some(u.username) = resp'.request.cookie}

\* C12: the effective radius of a nearby query is exactly 5.0 km when the
\* asking user's stored nearby_distance_km is absent or <= 0, and is the
\* stored value otherwise.
C12_EffectiveRadius ==
  [][NearbyAnswered =>
       \A u \in Asker :
         resp'.distance_km =
           IF u.nearby_distance_km = None \/ Val(u.nearby_distance_km).m <= 0
           THEN FromInt(5) ELSE Val(u.nearby_distance_km)]_vars

\* C12 witness: a user whose stored distance is negative was answered with
\* the radius 5.
C12_Witness ==
  /\ resp.status = 200 /\ "distance_km" \in DOMAIN resp
  /\ resp.distance_km = FromInt(5)
  /\ \E u \in maptech_users :
       Some(u.username) = resp.request.cookie /\ u.nearby_distance_km = Some(FromInt(-1))

\* |a - b| for thousandths.
AbsDiff(a, b) == IF a >= b THEN a - b ELSE b - a

\* max(0.1, |cos lat|) in thousandths, from the cosine table.
FlooredCos(lat) ==
  LET k == AbsCosMilli(lat) IN IF k >= 100 THEN k ELSE 100

\* C13: a nearby query with centre (lat, lng) and effective radius r > 0
\* returns exactly the customers with |latitude - lat| <= r/111 and
\* |longitude - lng| <= d, d = r / (111 * max(0.1, |cos lat|)); d does not
\* decrease towards the poles and never exceeds r/11.1.
C13_BoundingBox ==
  [][NearbyAnswered =>
       LET lat == resp'.request.lat
           lng == resp'.request.lng
           r == Milli(resp'.distance_km)
       IN  r > 0 =>
           /\ resp'.body =
                {SearchItem(c) : c \in {x \in customers :
                   /\ 111 * AbsDiff(Milli(x.latitude), Milli(lat)) <= r
                   /\ 111 * FlooredCos(lat) * AbsDiff(Milli(x.longitude), Milli(lng))
                        <= 1000 * r}}
           /\ resp'.denom = 111 * FlooredCos(lat)
           \* d = 1000 r / denom: larger where the denominator is smaller
           /\ \A other \in CenterLats :
                AbsDiff(Milli(other), 0) >= AbsDiff(Milli(lat), 0)
                  => DenomMilli(other) <= resp'.denom
           /\ 10 * resp'.denom >= 11100]_vars

\* C13 witness: at latitude 90, where the cosine floor applies, the
\* customer half a degree east of the centre is left out and the customer
\* 0.45 degrees east of it is returned.
C13_Witness ==
  /\ resp.status = 200 /\ "distance_km" \in DOMAIN resp
  /\ resp.request.lat = FromInt(90) /\ resp.distance_km = FromInt(5)
  /\ \E c \in customers : c.name = <<"E">> /\ SearchItem(c) \in resp.body
  /\ \E c \in customers : c.name = <<"A">> /\ SearchItem(c) \notin resp.body

\* The step is a GET /api/markers.
MarkersListed == req[Worker].pc = "idle" /\ resp' # resp /\ "markers" \in DOMAIN resp'

\* Customer c has a visit that starts today.
VisitedToday(c) ==
  \E v \in visit_schedules :
    /\ v.customer_id = Some(c.id)
    /\ Midnight(now) <= Val(v.start_at) /\ Val(v.start_at) < Midnight(now) + 24

\* C14: GET /api/markers lists exactly the customers with at least one
\* visit whose start_at lies in [today's midnight, midnight + 1 day), each
\* of them once.
C14_MarkersToday ==
  [][MarkersListed =>
       /\ DOMAIN resp'.markers = {SearchItem(c) : c \in {x \in customers : VisitedToday(x)}}
       /\ \A i \in DOMAIN resp'.markers : resp'.markers[i] = 1]_vars

\* C14 witness: customer 1 has two visits, both starting today (one of
\* them the seeded visit, moved from tomorrow to today's midnight), and is
\* listed once; customer 2 is not listed.
C14_Witness ==
  /\ resp.status = 200 /\ "markers" \in DOMAIN resp
  /\ Cardinality({v \in visit_schedules : v.customer_id = Some(1)}) = 2
  /\ \E v \in visit_schedules : v.id = 1 /\ v.start_at = Some(0)
  /\ \A v \in visit_schedules : Val(v.start_at) < 24
  /\ {i.id : i \in DOMAIN resp.markers} = {1}

\* The step is a visit create, or an update of a stored visit.
VisitWritten ==
  /\ req[Worker].pc = "idle" /\ resp' # resp /\ "request" \in DOMAIN resp'
  /\ "op" \in DOMAIN resp'.request
  /\ \/ resp'.request.op = "create_visit"
     \/ /\ resp'.request.op = "update_visit"
        /\ \E v \in visit_schedules : v.id = resp'.request.visit_id

\* C18: every stored visit whose customer_id is set references a stored
\* customer, and a visit create or update that names a customer that does
\* not exist leaves the visits as they were.
C18_VisitCustomerExists ==
  /\ [](\A v \in visit_schedules :
          v.customer_id # None => \E c \in customers : c.id = Val(v.customer_id))
  /\ [][(VisitWritten
          /\ resp'.request.payload.customer_id # None
          /\ \A c \in customers : c.id # Val(resp'.request.payload.customer_id))
         => visit_schedules' = visit_schedules /\ resp'.status >= 400]_vars

\* C18 witness: an update of the stored visit 1 that named customer 9 was
\* refused, and the visit still references customer 1.
C18_Witness ==
  /\ resp.status = 500 /\ "request" \in DOMAIN resp
  /\ resp.request.op = "update_visit"
  /\ resp.request.payload.customer_id = Some(9)
  /\ \E v \in visit_schedules : v.id = resp.request.visit_id /\ v.customer_id = Some(1)

\* A text that is not empty and is no ISO date.
BadDatetime(value) == value # None /\ Val(value) # <<>> /\ ~FromIsoFormat(Val(value)).ok

BadColorRow(raw) ==
  ~raw.dict \/ (raw.priority.t = "str" /\ ~PyInt(raw.priority.s).ok)

\* C16: a POST /admin/marker-colors by an admin with a bad row among the
\* rows is answered with 400 and no rule is deleted or inserted.
C16_BadRowAborts ==
  [][req[Worker].pc = "idle" =>
     \A c \in AdminCookies, rows \in BadRowPayloads :
       (/\ IsAdminCookie(c)
        /\ \E i \in DOMAIN rows : BadColorRow(rows[i])
        /\ save_marker_colors_begin(Worker, c, rows)) =>
          /\ marker_color_setting' = marker_color_setting
          /\ next_id' = next_id
          /\ req'[Worker].pc = "idle"
          /\ resp'.status = 400
    ]_vars

\* C16 witness: a replace was answered with 400 and the seven seeded rules
\* are stored.
C16_Witness ==
  /\ resp.status = 400
  /\ marker_color_setting = WithIds(SeedColors, 1)

\* The text of a username or password of a payload row, trimmed; empty
\* when it is missing.
Trimmed(raw) == IF raw.t = "str" THEN Strip(raw.s) ELSE <<>>

\* The row is one the bulk save keeps.
KeptUserRow(r) == Trimmed(r.username) # <<>> /\ Trimmed(r.password) # <<>>

\* C17: after a successful POST /admin/users with rows L the stored users
\* are exactly the rows of L whose trimmed username and password are both
\* non-empty, in their order; no user stored before remains unless it is
\* among them.
C17_UsersReplaced ==
  [][(req[Worker].pc = "users_insert" /\ resp'.status = 200) =>
       LET kept == SelectSeq(req[Worker].rows, KeptUserRow)
           stored == ById(maptech_users')
       IN  /\ Len(stored) = Len(kept)
           /\ \A i \in DOMAIN kept :
                /\ stored[i].username = Trimmed(kept[i].username)
                /\ stored[i].password = Trimmed(kept[i].password)
                /\ \A f \in UserTextFields : stored[i][f] = kept[i].texts[f]
           /\ \A u \in req[Worker].before :
                u \in maptech_users' => \E i \in DOMAIN kept :
                                          u.username = Trimmed(kept[i].username)]_vars

\* C17 witness: a save has stored the user sent as " a ", trimmed, and the
\* seeded user is gone.
C17_Witness ==
  /\ resp.status = 200 /\ resp.body = [status |-> "ok"]
  /\ {u.username : u \in maptech_users} = {<<"a">>}
  /\ \E u \in maptech_users : u.password = <<"p">>

\* The rules a replace in progress (process q) is about to store.
RulesAfter(q) ==
  WithIds(StoredColors(ToSaveColors(req[q].parsed_rows)), next_id["marker_color_setting"])

\* The usernames a replace in progress (process q) is about to store.
UsernamesAfter(q) ==
  {ToAddUsers(req[q].rows).to_add[i].username : i \in DOMAIN ToAddUsers(req[q].rows).to_add}

\* C20: a request that runs while a bulk replace is in progress sees the
\* set stored before the replace or the set stored after it: the settings
\* page lists one of the two rule sets, and a user stored before and after
\* the replace of the users is authenticated.
C20_ReplaceIsolated ==
  [][\A p, q \in Procs :
       /\ (req[p].pc = "page_render" /\ req'[p].pc = "idle" /\ req[q].pc = "colors_insert")
            => resp'.body.marker_colors \in
                 {MarkerColorsOrdered(req[q].before), MarkerColorsOrdered(RulesAfter(q))}
       /\ (/\ req[p].pc = "idle" /\ req' = req /\ resp' # resp /\ resp'.proc = p
           /\ req[q].pc = "users_insert"
           /\ <<"d", "e", "m", "o">> \in {u.username : u \in req[q].before}
           /\ <<"d", "e", "m", "o">> \in UsernamesAfter(q))
            => resp'.status # 401]_vars

\* The cookie is missing or names no stored admin / no stored user.
NoAdmin(c) == c = None \/ \A a \in admin_users : a.username # Val(c)
NoUser(c) == c = None \/ \A u \in maptech_users : u.username # Val(c)

\* The answer is a rejection, and nothing stored has changed.
Rejected ==
  /\ \/ resp'.status = 401
     \/ resp'.status = 303 /\ resp'.location \in {"/AdminLogin", "/LoginPage"}
  /\ UNCHANGED <<tables, next_id, req>>

\* C15: a request to an admin endpoint whose cookie is missing or names no
\* stored admin, and a request to a user endpoint whose cookie is missing
\* or names no stored user, is rejected (401 or redirect to the login) and
\* changes nothing stored.
C15_AccessByStoredRows ==
  [][req[Worker].pc = "idle" =>
       /\ \A c \in AdminCookies :
            NoAdmin(c) =>
              /\ \A f \in RaceForms :
                   update_admin_settings_begin(Worker, c, f) => Rejected
              /\ save_marker_colors_begin(Worker, c, RaceColorRows) => Rejected
              /\ \A rows \in AccessUserRows :
                   save_maptech_users_begin(Worker, c, rows) => Rejected
       /\ \A c \in AccessUserCookies :
            NoUser(c) =>
              /\ \A payload \in AccessPayloads :
                   update_user_settings(Worker, c, payload) => Rejected
              /\ get_user_settings(Worker, c) => Rejected
              /\ \A lat \in AccessLats, lng \in CenterLngs :
                   list_markers_nearby(Worker, c, lat, lng) => Rejected
              /\ \A k \in ApiKeys : mobile_map_page(Worker, c, k) => Rejected]_vars

\* C15 witness: the seeded user was removed by a bulk replace that stored
\* nobody, and a request was then answered with 401.
C15_Witness ==
  /\ maptech_users = {}
  /\ next_id["maptech_users"] = 2
  /\ req[Worker].pc = "idle"
  /\ resp.status = 401
=============================================================================
